---- MODULE Spec2Model ----
(***************************************************************************)
(* State-machine model of the traceAssist backend                          *)
(* (src/traceAssist/backend/main.py): the Source Acquirer endpoints        *)
(* /upload (upload_zip) and /clone (clone_repo).                           *)
(*                                                                         *)
(* Text is modelled as a sequence of symbols (a symbol is a chunk of       *)
(* characters: a word, a path segment, a separator).  Substring tests,     *)
(* lower-casing, prefix tests, percent-encoding and URL parsing are        *)
(* computed on these sequences the way the Python code computes them on    *)
(* characters.                                                             *)
(*                                                                         *)
(* The endpoints are `async def` handlers without any await on their       *)
(* blocking calls, so the event loop runs one handler at a time.           *)
(***************************************************************************)
EXTENDS Integers, Sequences, FiniteSets, TLC

VARIABLES
    dirs,        \* filesystem under BASE_DIR: app id -> state of user-apps/<id>
    nextId,      \* number of application ids generated so far (uuid.uuid4)
    resp,        \* the response (or HTTP error) the last handler returned
    log,         \* the log lines written by the current / last clone_repo run
    lastUpload,  \* input of the last /upload request
    pat_token,   \* value of the PAT_TOKEN environment variable
    remote,      \* the remote repository the current /clone request points at
    clone,       \* local variables of the running clone_repo handler
    attempts,    \* the Repo.clone_from calls made by the current / last /clone
    classified,  \* the last call of detect_language and what came of it
    fsinfo,      \* what the OS reports on working directory 1: os.stat of its
                 \* files and the order it lists directory entries in
    templates,   \* the template files present in TEMPLATE_DIR
    k8s,         \* K8S_OUTPUT_DIR: file name -> rendered text
    cluster,     \* the resources the cluster holds in namespace traceassist
    images,      \* the image tags the local container engine holds
    inst,        \* local variables of the running instrument_app handler
    dockerfile,  \* app id -> text of user-apps/<id>/Dockerfile
    calls,       \* what the current / last /instrument request did, in order
    ctx,         \* the last run of get_project_context_for_ai
    normalized,  \* the last run of the branch validator of GitCloneRequest
    pipes,       \* app id -> how far the onboarding of the application has come
    writes       \* every path written and every image and resource name
                 \* produced so far, with the application it was done for

\* the state of the classifier, the /instrument pipeline and the extractor
pipelineVars == <<classified, fsinfo, templates, k8s, cluster, images, inst,
                  dockerfile, calls, ctx, normalized, pipes, writes>>

vars == <<dirs, nextId, resp, log, lastUpload, pat_token, remote, clone, attempts,
          classified, fsinfo, templates, k8s, cluster, images, inst, dockerfile,
          calls, ctx, normalized, pipes, writes>>

(***************************************************************************)
(* Bounds of the model.                                                    *)
(***************************************************************************)
MaxUploads == 1      \* /upload requests in one behaviour
MaxEntries == 2      \* entries in an uploaded archive
MaxClones  == 1      \* /clone requests in one behaviour
MaxFiles   == 3      \* files in a working directory handed to the classifier
MaxBranchLen == 3    \* symbols in the branch value of a clone request
MaxOddFiles == 2     \* files of a working directory with an unusual size or mode
MaxPipelines == 2    \* applications onboarded side by side

AppIds == 1..(MaxUploads + MaxClones + 1)

(***************************************************************************)
(* Strings as sequences of symbols.                                        *)
(***************************************************************************)

\* str.lower() on one symbol: the symbols of the model that carry an
\* upper-case letter, mapped to their lower-case form.
LowerSym(w) ==
    CASE w = "Username"       -> "username"
      [] w = "Authentication" -> "authentication"
      [] w = "Repository"     -> "repository"
      [] w = "Remote"         -> "remote"
      [] w = "Cmd('git')"     -> "cmd('git')"
      [] w = "Password"       -> "password"
      [] OTHER                -> w

\* str.lower()
LowerStr(s) == [i \in 1..Len(s) |-> LowerSym(s[i])]

\* `needle in s`
Contains(needle, s) ==
    \E i \in 0..(Len(s) - Len(needle)) :
        SubSeq(s, i + 1, i + Len(needle)) = needle

\* s.startswith(p)
StartsWith(s, p) == Len(s) >= Len(p) /\ SubSeq(s, 1, Len(p)) = p

\* position of the first / last occurrence of a symbol, 0 when absent
IndexOf(s, sym) ==
    IF \E i \in 1..Len(s) : s[i] = sym
    THEN CHOOSE i \in 1..Len(s) : s[i] = sym /\ \A j \in 1..(i - 1) : s[j] # sym
    ELSE 0

LastIndexOf(s, sym) ==
    IF \E i \in 1..Len(s) : s[i] = sym
    THEN CHOOSE i \in 1..Len(s) : s[i] = sym /\ \A j \in (i + 1)..Len(s) : s[j] # sym
    ELSE 0

\* concatenation of a sequence of strings
RECURSIVE Join(_)
Join(parts) ==
    IF parts = <<>> THEN <<>>
    ELSE IF Len(parts) = 1 THEN parts[1]
    ELSE LET h == Len(parts) \div 2
         IN  Join(SubSeq(parts, 1, h)) \o Join(SubSeq(parts, h + 1, Len(parts)))

\* a text of n characters, one symbol per character
Chars(n) == [i \in 1..n |-> "x"]

\* s[:n] on a text that has one symbol per character
Slice(s, n) == SubSeq(s, 1, IF Len(s) < n THEN Len(s) ELSE n)

\* number of characters of a text
RECURSIVE CharLen(_)
CharLen(s) ==
    IF s = <<>> THEN 0
    ELSE IF Len(s) = 1 THEN Len(s[1])
    ELSE LET h == Len(s) \div 2
         IN  CharLen(SubSeq(s, 1, h)) + CharLen(SubSeq(s, h + 1, Len(s)))

\* the slice bounds of lines 289 and 661
BuildStderrLimit == 500
ApplyStderrLimit == 500

(***************************************************************************)
(* The filesystem under BASE_DIR.                                          *)
(***************************************************************************)
NoDir    == [exists |-> FALSE, zip |-> FALSE, files |-> {}]
EmptyDir == [exists |-> TRUE, zip |-> FALSE, files |-> {}]

\* os.makedirs(app_dir, exist_ok=True)
Makedirs(d) == IF d.exists THEN d ELSE EmptyDir

\* shutil.rmtree(app_dir, ignore_errors=True) guarded by os.path.exists
Rmtree(d) == NoDir

(***************************************************************************)
(* /upload                                                                 *)
(***************************************************************************)
ZipName == <<"app", ".", "zip">>

\* entry names an uploaded archive may carry
EntryNames ==
    { <<"package", ".", "json">>,
      <<"/", "etc", "/", "passwd">>,
      <<".", ".", "/", "evil", ".", "sh">>,
      <<"notes", ".", ".", "txt">>,
      ZipName }

RECURSIVE SeqsUpTo(_, _)
SeqsUpTo(S, n) ==
    IF n = 0 THEN { <<>> }
    ELSE LET shorter == SeqsUpTo(S, n - 1)
         IN  shorter \cup { Append(s, x) : s \in { t \in shorter : Len(t) = n - 1 }, x \in S }

\* the uploaded payload: bytes that are a zip archive with the given entry
\* list, or bytes that are no zip archive at all
Payloads ==
    { [wellformed |-> TRUE, names |-> ns] : ns \in SeqsUpTo(EntryNames, MaxEntries) }
      \cup { [wellformed |-> FALSE, names |-> <<>>] }

\* what the operating system does to the handler's file operations
\* (open of app.zip fails, the copy into it fails, extractall fails)
IoFaults == {"none", "open", "copy", "extract"}

\* the check of line 427 on one member name
IllegalMember(member) ==
    StartsWith(member, <<"/">>) \/ Contains(<<".", ".">>, member)

DetailInvalidPath == <<"Invalid file path in zip archive.">>
DetailNotZip      == <<"Uploaded file is not a valid zip archive.">>
DetailProcessing  == <<"Failed to process uploaded file:">>
DetailUploaded    == <<"File uploaded and extracted successfully.">>

\* str(e) of the exception caught at line 437
ExcText(exc) ==
    CASE exc = "HTTPException400" -> <<"400:">> \o DetailInvalidPath
      [] exc = "OSError"          -> <<"[Errno]">>
      [] OTHER                    -> <<>>

\* extractall is reached: the archive opens and no member is refused
Extractable(payload) ==
    /\ payload.wellformed
    /\ \A i \in 1..Len(payload.names) : ~IllegalMember(payload.names[i])

\* The body of the try block (lines 419-430): the directory it leaves and the
\* exception it raises ("none" when it runs to its end).  `partial` is the
\* number of members extractall had written when the filesystem failed it.
UploadTry(d, payload, io, partial) ==
    IF io = "open"
    THEN [dir |-> d, exc |-> "OSError"]
    ELSE IF io = "copy"
    THEN [dir |-> [d EXCEPT !.zip = TRUE], exc |-> "OSError"]
    ELSE LET saved == [d EXCEPT !.zip = TRUE]
             ns    == payload.names
         IN  IF ~payload.wellformed
             THEN [dir |-> saved, exc |-> "BadZipFile"]
             ELSE IF \E i \in 1..Len(ns) : IllegalMember(ns[i])
             THEN [dir |-> saved, exc |-> "HTTPException400"]
             ELSE IF io = "extract"
             THEN [dir |-> [saved EXCEPT !.files = { ns[i] : i \in 1..partial }],
                   exc |-> "OSError"]
             ELSE [dir |-> [saved EXCEPT !.files = { ns[i] : i \in 1..Len(ns) }],
                   exc |-> "none"]

\* The except clauses (lines 433-440).  HTTPException is a subclass of
\* Exception, so the clause of line 437 also catches the one raised at 429.
UploadExcept(t) ==
    CASE t.exc = "none" ->
            [dir |-> t.dir, status |-> 200, detail |-> DetailUploaded]
      [] t.exc = "BadZipFile" ->
            [dir |-> Rmtree(t.dir), status |-> 400, detail |-> DetailNotZip]
      [] OTHER ->
            [dir |-> Rmtree(t.dir), status |-> 500,
             detail |-> DetailProcessing \o ExcText(t.exc)]

\* The finally clause (lines 441-444): app.zip is removed when it exists,
\* be it the saved upload or a member of that name extracted over it.
UploadFinallyMutant(d) == d
UploadFinally(d) ==
    IF d.exists /\ (d.zip \/ ZipName \in d.files)
    THEN [d EXCEPT !.zip = FALSE, !.files = d.files \ {ZipName}]
    ELSE d

\* upload_zip, the whole handler
UploadZip ==
    /\ clone.pc = "idle"
    /\ nextId < MaxUploads
    /\ \E payload \in Payloads, io \in IoFaults, partial \in 0..MaxEntries :
         /\ partial <= Len(payload.names)
         /\ (io # "extract") => (partial = 0)
         /\ (io = "extract") => Extractable(payload)
         /\ LET id  == nextId + 1
                t   == UploadTry(Makedirs(dirs[id]), payload, io, partial)
                r   == UploadExcept(t)
                fin == UploadFinally(r.dir)
            IN  /\ dirs' = [dirs EXCEPT ![id] = fin]
                /\ nextId' = id
                /\ resp' = [op |-> "upload", status |-> r.status, detail |-> r.detail,
                            app_id |-> id, cloned_branch |-> <<>>]
                /\ lastUpload' = [payload |-> payload, io |-> io, partial |-> partial]
    /\ UNCHANGED <<log, pat_token, remote, clone, attempts>>
    /\ UNCHANGED pipelineVars

(***************************************************************************)
(* /clone: the request model (GitCloneRequest)                             *)
(***************************************************************************)
Main   == <<"main">>
Master == <<"master">>
Dev    == <<"dev">>

\* str.strip()
RECURSIVE LStrip(_)
LStrip(s) == IF s # <<>> /\ Head(s) = " " THEN LStrip(Tail(s)) ELSE s
RECURSIVE RStrip(_)
RStrip(s) ==
    IF s # <<>> /\ s[Len(s)] = " " THEN RStrip(SubSeq(s, 1, Len(s) - 1)) ELSE s
Strip(s) == RStrip(LStrip(s))

\* GitCloneRequest.normalize_default_branch; v.none stands for None
normalize_default_branchMutant(v) ==
    IF v.none THEN Main
    ELSE IF v.s = Master THEN Main
    ELSE IF Strip(v.s) = <<>> THEN Main
    ELSE Strip(v.s)
normalize_default_branch(v) ==
    IF v.none THEN Main
    ELSE LET w == Strip(v.s)
         IN  IF w = <<>> THEN Main
             ELSE IF w = Master THEN Main
             ELSE w

\* GitCloneRequest.validate_repo_url_is_https: TRUE when the value is accepted
validate_repo_url_is_https(v) ==
    /\ v # <<>>
    /\ \/ StartsWith(v, <<"https", "://">>)
       \/ StartsWith(v, <<"http", "://">>)

\* branch values a client may send
BranchInputs ==
    { [none |-> TRUE,  s |-> <<>>],
      [none |-> FALSE, s |-> Master],
      [none |-> FALSE, s |-> <<" ", "dev", " ">>] }

\* branch values handed to the validator on its own: None, and every text
\* of up to MaxBranchLen of these symbols
BranchSymbols == {" ", "master", "main", "dev"}
BranchValues ==
    { [none |-> TRUE, s |-> <<>>] }
      \cup { [none |-> FALSE, s |-> t] : t \in SeqsUpTo(BranchSymbols, MaxBranchLen) }

NotNormalized == [done |-> FALSE, input |-> [none |-> TRUE, s |-> <<>>],
                  output |-> <<>>]

\* pydantic runs the validator on the branch value of a request body
NormalizeBranch ==
    /\ ~normalized.done
    /\ normalized' = [normalized EXCEPT !.done = TRUE,
                         !.output = normalize_default_branch(normalized.input)]
    /\ UNCHANGED <<dirs, nextId, resp, log, lastUpload, pat_token, remote, clone,
                   attempts, classified, fsinfo, templates, k8s, cluster, images,
                   inst, dockerfile, calls, ctx, pipes, writes>>

Path == <<"/", "o", "/", "r">>

\* repo_url values a client may send
RepoUrls ==
    { <<"https", "://", "github", ".", "com">> \o Path,
      <<"http", "://", "github", ".", "com">> \o Path,
      <<"https", "://", "gitlab", ".", "com">> \o Path,
      <<"https", "://", "github", ".", "com", ".", "evil", ".", "io">> \o Path,
      <<"https", "://", "user", "@", "github", ".", "com", ":", "8443">> \o Path,
      <<"ftp", "://", "github", ".", "com">> \o Path }

\* values of the PAT_TOKEN environment variable; set = FALSE: not defined
PatTokens ==
    { [set |-> FALSE, s |-> <<>>],
      [set |-> TRUE,  s |-> <<"ghp", "_", "s3cr3t">>],
      [set |-> TRUE,  s |-> <<"p", "/", "w">>] }

(***************************************************************************)
(* urllib.parse                                                            *)
(***************************************************************************)

\* urlparse(url): scheme (lower-cased), netloc, path.  The model's URLs carry
\* no params, query or fragment.
urlparse(url) ==
    LET i    == IndexOf(url, "://")
        rest == SubSeq(url, i + 1, Len(url))
        j    == IndexOf(rest, "/")
        k    == IF j = 0 THEN Len(rest) + 1 ELSE j
    IN  IF i = 0
        THEN [scheme |-> <<>>, netloc |-> <<>>, path |-> url]
        ELSE [scheme |-> LowerStr(SubSeq(url, 1, i - 1)),
              netloc |-> SubSeq(rest, 1, k - 1),
              path   |-> SubSeq(rest, k, Len(rest))]

\* the host and port part of a netloc: what follows the last "@"
HostPort(netloc) == SubSeq(netloc, LastIndexOf(netloc, "@") + 1, Len(netloc))

\* ParseResult.hostname: lower-cased, <<>> for None
hostname(parsed) ==
    LET hp == HostPort(parsed.netloc)
        c  == IndexOf(hp, ":")
    IN  LowerStr(IF c = 0 THEN hp ELSE SubSeq(hp, 1, c - 1))

\* ParseResult.port, <<>> for None.  The model's ports are canonical decimal
\* numerals, on which int() followed by formatting gives the numeral back.
port(parsed) ==
    LET hp == HostPort(parsed.netloc)
        c  == IndexOf(hp, ":")
    IN  IF c = 0 THEN <<>> ELSE SubSeq(hp, c + 1, Len(hp))

\* urlunparse((scheme, netloc, path, "", "", ""))
urlunparse(scheme, netloc, path) == scheme \o <<"://">> \o netloc \o path

\* quote(s, safe='') on one symbol: letters, digits and "_.-~" are kept,
\* every other character becomes %XX
QuoteSym(c) ==
    CASE c = "/" -> <<"%", "2F">>
      [] c = "@" -> <<"%", "40">>
      [] c = ":" -> <<"%", "3A">>
      [] OTHER   -> <<c>>

\* quote(s, safe='')
quote(s) == Join([i \in 1..Len(s) |-> QuoteSym(s[i])])

(***************************************************************************)
(* /clone: credential injection (lines 454-484)                            *)
(***************************************************************************)
GithubCom == <<"github", ".", "com">>

\* the condition of line 462
InjectCondition(parsed) ==
    /\ LowerStr(parsed.scheme) = <<"https">>
    /\ hostname(parsed) # <<>>
    /\ Contains(GithubCom, LowerStr(hostname(parsed)))

\* effective_clone_url
EffectiveCloneUrl(repo_url, tok) ==
    IF tok.set /\ tok.s # <<>>
    THEN LET parsed == urlparse(repo_url)
         IN  IF InjectCondition(parsed)
             THEN LET withTok == quote(tok.s) \o <<"@">> \o hostname(parsed)
                      netloc_with_token ==
                          IF port(parsed) # <<>>
                          THEN withTok \o <<":">> \o port(parsed)
                          ELSE withTok
                  IN  urlunparse(parsed.scheme, netloc_with_token, parsed.path)
             ELSE repo_url
    ELSE repo_url

(***************************************************************************)
(* /clone: candidate branches (lines 486-492)                              *)
(***************************************************************************)
branches_to_try_set(branch) ==
    IF branch = Main THEN {branch, Master}
    ELSE IF branch = Master THEN {branch, Main}
    ELSE {branch}

\* list(branches_to_try_set): a set of str iterates in the order of the
\* elements' hashes, which str hash randomization changes from one process
\* to the next, so every order of the elements can be the list.
branches_to_try_lists(branch) ==
    LET S == branches_to_try_set(branch)
    IN  { l \in SeqsUpTo(S, Cardinality(S)) :
            Len(l) = Cardinality(S) /\ { l[i] : i \in 1..Len(l) } = S }

(***************************************************************************)
(* The remote side of Repo.clone_from                                      *)
(***************************************************************************)
RemoteBranchSets == { {Master}, {Main, Master, Dev} }

\* the URL as git prints it when it strips the credentials
Anonymize(url) ==
    LET parsed == urlparse(url)
    IN  urlunparse(parsed.scheme, HostPort(parsed.netloc), parsed.path)

\* git's message for a branch the remote does not have
StderrMissingBranch ==
    <<"fatal:", "Remote", "branch", "not", "found", "in", "upstream", "origin">>

\* stderr texts of a failed `git clone`; <<"URL">> marks the place where git
\* prints the URL it was given
StderrTemplates ==
    { StderrMissingBranch,
      <<"remote:", "Repository", "not", "found", "fatal:",
        "could", "not", "read", "Username">>,
      <<"remote:", "not", "found", "fatal:", "could", "not", "read", "Username">>,
      <<"fatal:", "could", "not", "read", "Password", "for", "URL">>,
      <<"fatal:", "Authentication", "failed", "for", "URL">>,
      <<"remote:", "Repository", "not", "found">>,
      <<"fatal:", "unable", "to", "access", "the", "remote", "remote:">>
          \o Chars(BuildStderrLimit + 1),
      <<>> }

\* a template with the URL put in its place
FillUrl(tpl, shown) ==
    Join([i \in 1..Len(tpl) |-> IF tpl[i] = "URL" THEN shown ELSE <<tpl[i]>>])

\* str(e) of a GitCommandError: the command line and the stderr text
GitErrorStr(shown, stderr) ==
    <<"Cmd('git')", "failed", "cmdline:", "git", "clone">> \o shown \o stderr

\* The GitCommandError values a clone of `url` can raise.  Whether the URL
\* shows with or without its credentials depends on the versions of git and
\* GitPython installed, so both are possible.
GitErrors(url) ==
    { [kind |-> "git", stderr |-> FillUrl(tpl, shown),
       str |-> GitErrorStr(shown, FillUrl(tpl, shown))] :
        tpl \in StderrTemplates, shown \in {url, Anonymize(url)} }

\* an exception of Repo.clone_from that is no GitCommandError, with its str(e)
OtherErrors(url) ==
    { [kind |-> "exc", stderr |-> <<>>, str |-> <<"[Errno]", "No space left on device">>] }

CloneOk == [kind |-> "ok", stderr |-> <<>>, str |-> <<>>]

\* outcomes of Repo.clone_from(url, app_dir, branch=b) against remote r
CloneOutcomes(url, b, r) ==
    GitErrors(url) \cup OtherErrors(url)
        \cup (IF b \in r.branches THEN {CloneOk} ELSE {})

\* the working tree a successful clone of branch b leaves in app_dir
Checkout(b) == <<".git", "@">> \o b

(***************************************************************************)
(* /clone: error classification (lines 513-534) and status (lines 544-562) *)
(***************************************************************************)
NeedlePrompt  == <<"could", "not", "read", "Username">>
NeedleAuth    == <<"authentication", "failed">>
NeedleRepo    == <<"repository", "not", "found">>
NeedleRef     == <<"couldn't", "find", "remote", "ref">>
NeedleMissing == <<"not", "found">>

\* The if/elif chain of lines 518-534, named by the error kind each arm
\* handles.  Every test looks for its literal in the lower-cased text.
ClassifyGitError(text) ==
    LET low == LowerStr(text)
    IN  IF Contains(NeedlePrompt, low) THEN "AuthConfigurationError"
        ELSE IF Contains(NeedleAuth, low) THEN "AuthError"
        ELSE IF Contains(NeedleRepo, low) /\ ~Contains(NeedleAuth, low)
             THEN "NotFoundError"
        ELSE IF Contains(NeedleRef, low) \/ Contains(NeedleMissing, low)
             THEN "BranchNotFound"
        ELSE "CloneError"

\* last_git_error_stderr = e.stderr or str(e) (line 515)
LastGitErrorStderr(e) == IF e.stderr # <<>> THEN e.stderr ELSE e.str

\* break or continue, by the arm taken
LoopControlMutant(cls) ==
    IF cls \in {"BranchNotFound", "CloneError"} THEN "continue" ELSE "break"
LoopControl(cls) == IF cls = "BranchNotFound" THEN "continue" ELSE "break"

\* status_code of the failure response (lines 545-562)
FailureStatus(last_git_error_stderr) ==
    LET low == LowerStr(last_git_error_stderr)
    IN  IF last_git_error_stderr # <<>>
        THEN IF Contains(NeedlePrompt, low) THEN 500
             ELSE IF Contains(NeedleAuth, low) THEN 403
             ELSE IF Contains(NeedleRepo, low) /\ ~Contains(NeedleAuth, low) THEN 404
             ELSE 500
        ELSE 404

\* detail_msg of the failure response (lines 544-561)
FailureDetail(repo_url, tried, last_git_error_stderr) ==
    LET low  == LowerStr(last_git_error_stderr)
        base == <<"Failed to clone from repository">> \o repo_url
                    \o <<"on tried branch(es):">> \o Join(tried)
    IN  IF last_git_error_stderr # <<>>
        THEN IF Contains(NeedlePrompt, low)
             THEN base \o <<"Git tried to prompt for username", "Last Git error:">>
                       \o last_git_error_stderr
             ELSE IF Contains(NeedleAuth, low)
             THEN base \o <<"Authentication failed.", "Last Git error:">>
                       \o last_git_error_stderr
             ELSE IF Contains(NeedleRepo, low) /\ ~Contains(NeedleAuth, low)
             THEN base \o <<"Repository not found or access denied.", "Last Git error:">>
                       \o last_git_error_stderr
             ELSE base \o <<"Last Git error:">> \o last_git_error_stderr
        ELSE base \o <<"No specific Git error captured">>

(***************************************************************************)
(* /clone: the handler                                                     *)
(***************************************************************************)
NoResp == [op |-> "none", status |-> 0, detail |-> <<>>, app_id |-> 0,
           cloned_branch |-> <<>>]

Idle == [pc |-> "idle", app_id |-> 0, repo_url |-> <<>>, branch |-> <<>>,
         effective_clone_url |-> <<>>, branches_to_try |-> <<>>, i |-> 1,
         last_git_error_stderr |-> <<>>, cloned_successfully |-> FALSE,
         final_cloned_branch |-> <<>>]

\* The handler has returned: its locals are gone; the request it served
\* (app_id, repo_url, branch, candidate list) is kept for reference.
Returned(c) == [Idle EXCEPT !.app_id = c.app_id,
                            !.repo_url = c.repo_url,
                            !.branch = c.branch,
                            !.branches_to_try = c.branches_to_try]

\* the log lines of lines 452-484
InjectionLog(repo_url, branch, tok) ==
    { <<"Received clone request">> \o repo_url \o branch }
      \cup (IF tok.set /\ tok.s # <<>>
            THEN IF InjectCondition(urlparse(repo_url))
                 THEN { <<"URL modified for cloning with PAT. Original:">> \o repo_url }
                 ELSE { <<"PAT_TOKEN found, but repo_url is not recognized">> \o repo_url }
            ELSE { <<"PAT_TOKEN not found in environment.">> })

\* A request the GitCloneRequest validators refuse: the handler does not run.
CloneReject ==
    /\ clone.pc = "idle"
    /\ nextId < MaxClones
    /\ \E url \in RepoUrls :
         /\ ~validate_repo_url_is_https(url)
         /\ resp' = [op |-> "clone", status |-> 422,
                     detail |-> <<"repo_url must be an HTTP or HTTPS URL.">>,
                     app_id |-> 0, cloned_branch |-> <<>>]
    /\ UNCHANGED <<dirs, nextId, log, lastUpload, pat_token, remote, clone, attempts>>
    /\ UNCHANGED pipelineVars

\* clone_repo up to the branch loop (lines 450-497)
CloneReceive ==
    /\ clone.pc = "idle"
    /\ nextId < MaxClones
    /\ \E url \in RepoUrls, v \in BranchInputs, rb \in RemoteBranchSets :
         /\ validate_repo_url_is_https(url)
         /\ LET branch == normalize_default_branch(v)
            IN  \E tried \in branches_to_try_lists(branch) :
                  /\ clone' = [Idle EXCEPT
                                 !.pc = "loop",
                                 !.app_id = nextId + 1,
                                 !.repo_url = url,
                                 !.branch = branch,
                                 !.effective_clone_url = EffectiveCloneUrl(url, pat_token),
                                 !.branches_to_try = tried]
                  /\ log' = InjectionLog(url, branch, pat_token)
         /\ remote' = [branches |-> rb]
    /\ nextId' = nextId + 1
    /\ attempts' = <<>>
    /\ resp' = NoResp
    /\ UNCHANGED <<dirs, lastUpload, pat_token>>
    /\ UNCHANGED pipelineVars

\* One iteration of the branch loop (lines 499-538).
CloneAttempt ==
    /\ clone.pc = "loop"
    /\ LET b   == clone.branches_to_try[clone.i]
           id  == clone.app_id
           url == clone.effective_clone_url
           try == <<"Attempting to clone branch:">> \o b
       IN  \E out \in CloneOutcomes(url, b, remote) :
             CASE out.kind = "ok" ->
                    /\ dirs' = [dirs EXCEPT ![id] =
                                  [EmptyDir EXCEPT !.files = {Checkout(b)}]]
                    /\ clone' = [clone EXCEPT !.pc = "after",
                                              !.cloned_successfully = TRUE,
                                              !.final_cloned_branch = b]
                    /\ log' = log \cup
                                { try, <<"Successfully cloned">> \o clone.repo_url \o b }
                    /\ attempts' = Append(attempts,
                                     [branch |-> b, url |-> url, out |-> out, cls |-> "ok"])
                    /\ UNCHANGED resp
               [] out.kind = "git" ->
                    LET err  == LastGitErrorStderr(out)
                        cls  == ClassifyGitError(err)
                        last == clone.i = Len(clone.branches_to_try)
                    IN  /\ dirs' = [dirs EXCEPT ![id] = EmptyDir]
                        /\ clone' = [clone EXCEPT
                                       !.last_git_error_stderr = err,
                                       !.i = clone.i + 1,
                                       !.pc = IF LoopControl(cls) = "break" \/ last
                                              THEN "after" ELSE "loop"]
                        /\ log' = log \cup
                                    { try,
                                      <<"GitCommandError while cloning">> \o b \o out.stderr,
                                      <<cls>> \o b }
                        /\ attempts' = Append(attempts,
                                         [branch |-> b, url |-> url, out |-> out, cls |-> cls])
                        /\ UNCHANGED resp
               [] out.kind = "exc" ->
                    /\ dirs' = [dirs EXCEPT ![id] = Rmtree(EmptyDir)]
                    /\ clone' = Returned(clone)
                    /\ log' = log \cup
                                { try,
                                  <<"Unexpected error during cloning of">>
                                      \o clone.repo_url \o b \o out.str }
                    /\ attempts' = Append(attempts,
                                     [branch |-> b, url |-> url, out |-> out, cls |-> "exc"])
                    /\ resp' = [op |-> "clone", status |-> 500,
                                detail |-> <<"Unexpected error during cloning:">> \o out.str,
                                app_id |-> id, cloned_branch |-> <<>>]
    /\ UNCHANGED <<nextId, lastUpload, pat_token, remote>>
    /\ UNCHANGED pipelineVars

\* the working directory after the failure path (lines 565-566)
FailureCleanupMutant(d) == d
FailureCleanup(d) == IF d.exists THEN Rmtree(d) ELSE d

\* cloned_branch of the success response (line 541)
ReportedBranchMutant(c) == c.branch
ReportedBranch(c) == c.final_cloned_branch

\* After the loop (lines 540-567): the response.
CloneReturn ==
    /\ clone.pc = "after"
    /\ LET id == clone.app_id
       IN  IF clone.cloned_successfully
           THEN /\ resp' = [op |-> "clone", status |-> 200,
                            detail |-> <<"Repository cloned successfully.">>,
                            app_id |-> id, cloned_branch |-> ReportedBranch(clone)]
                /\ UNCHANGED <<dirs, log>>
           ELSE LET detail_msg == FailureDetail(clone.repo_url, clone.branches_to_try,
                                                clone.last_git_error_stderr)
                IN  /\ resp' = [op |-> "clone",
                                status |-> FailureStatus(clone.last_git_error_stderr),
                                detail |-> detail_msg,
                                app_id |-> id, cloned_branch |-> <<>>]
                    /\ log' = log \cup { <<"All clone attempts failed for">>
                                            \o clone.repo_url \o detail_msg }
                    /\ dirs' = [dirs EXCEPT ![id] = FailureCleanup(dirs[id])]
    /\ clone' = Returned(clone)
    /\ UNCHANGED <<nextId, lastUpload, pat_token, remote, attempts>>
    /\ UNCHANGED pipelineVars

(***************************************************************************)
(* Working directories as trees                                            *)
(*                                                                         *)
(* A file of a working directory is its path relative to the directory,    *)
(* the symbol "/" separating the components.  os.walk hands the code the   *)
(* directory of a file (root), and its name (an element of files).         *)
(***************************************************************************)

\* s.endswith(suffix)
EndsWith(s, suffix) ==
    Len(s) >= Len(suffix) /\ SubSeq(s, Len(s) - Len(suffix) + 1, Len(s)) = suffix

\* the components of a relative path
RECURSIVE SplitPath(_)
SplitPath(p) ==
    LET k == IndexOf(p, "/")
    IN  IF k = 0 THEN <<p>>
        ELSE <<SubSeq(p, 1, k - 1)>> \o SplitPath(SubSeq(p, k + 1, Len(p)))

\* the name of a file, and the directories above it
BaseName(p) == LET c == SplitPath(p) IN c[Len(c)]
DirParts(p) == LET c == SplitPath(p) IN SubSeq(c, 1, Len(c) - 1)

\* The files os.walk reaches when the loop body prunes the directories
\* named in `excluded` (dirs[:] = [d for d in dirs if d not in excluded]).
WalkedMutant(files, excluded) ==
    { p \in files : Len(DirParts(p)) = 0 \/ DirParts(p)[1] \notin excluded }
Walked(files, excluded) ==
    { p \in files : \A i \in 1..Len(DirParts(p)) : DirParts(p)[i] \notin excluded }

(***************************************************************************)
(* detect_language (lines 136-176)                                         *)
(***************************************************************************)
PackageJson == <<"package", ".", "json">>

\* excluded_dirs of lines 145-146
excluded_dirs ==
    { <<".git">>, <<"node_modules">>, <<"__pycache__">>, <<"venv">>, <<"env">>,
      <<".venv">>, <<"target">>, <<"build">>, <<"dist">>, <<".vscode">>,
      <<".idea">>, <<"docs">>, <<"tests">>, <<"test">> }

\* the if chain of lines 162-176
LanguageDecisionMutant(has_package_json, py_count, java_count) ==
    IF has_package_json THEN "nodejs"
    ELSE IF py_count > 0 THEN "python"
    ELSE IF java_count > 0 THEN "java"
    ELSE "unknown"
LanguageDecision(has_package_json, py_count, java_count) ==
    IF has_package_json THEN "nodejs"
    ELSE IF py_count > 0 /\ java_count = 0 THEN "python"
    ELSE IF java_count > 0 THEN "java"
    ELSE IF py_count > 0 THEN "python"
    ELSE "unknown"

\* detect_language(app_path) on the directory d.  jar_count is incremented
\* at line 159 without ever being assigned: the first file whose name ends
\* in ".jar" makes the function raise UnboundLocalError.
detect_language(d) ==
    IF ~d.exists THEN "unknown"
    ELSE LET seen == Walked(d.files, excluded_dirs)
             has_package_json == \E p \in seen : BaseName(p) = PackageJson
             py_count   == Cardinality({ p \in seen : EndsWith(BaseName(p), <<".", "py">>) })
             java_count == Cardinality({ p \in seen : EndsWith(BaseName(p), <<".", "java">>) })
         IN  IF \E p \in seen : EndsWith(BaseName(p), <<".", "jar">>)
             THEN "UnboundLocalError"
             ELSE LanguageDecision(has_package_json, py_count, java_count)

\* the labels detect_language is specified to return
Labels == {"nodejs", "python", "java", "unknown"}

\* files a working directory may hold
ProjectFiles ==
    { PackageJson,
      <<"app", ".", "py">>,
      <<"Main", ".", "java">>,
      <<"lib", ".", "jar">>,
      <<"README", ".", "md">>,
      <<"node_modules", "/", "package", ".", "json">>,
      <<"src", "/", "node_modules", "/", "package", ".", "json">>,
      <<"tests", "/", "test_app", ".", "py">>,
      <<"src", "/", "Main", ".", "java">>,
      <<"target", "/", "app", ".", "jar">> }

\* the working directories detect_language is run on: a missing one, and
\* the ones holding up to MaxFiles of the files above
WorkDirs ==
    { NoDir } \cup
    { [EmptyDir EXCEPT !.files = fs] :
        fs \in { x \in SUBSET ProjectFiles : Cardinality(x) <= MaxFiles } }

NotClassified == [app_id |-> 0, label |-> "none"]

\* a call detect_language(os.path.join(BASE_DIR, app_id))
Classify ==
    /\ \E id \in AppIds :
         classified' = [app_id |-> id, label |-> detect_language(dirs[id])]
    /\ UNCHANGED <<dirs, nextId, resp, log, lastUpload, pat_token, remote, clone,
                   attempts, fsinfo, templates, k8s, cluster, images, inst, dockerfile,
                   calls, ctx, normalized, pipes, writes>>

(***************************************************************************)
(* Image synthesis: generate_dockerfile and build_user_image               *)
(* (lines 178-292)                                                         *)
(***************************************************************************)

\* PORT_MAP.get(language, 8080)
PORT_MAP(language) ==
    CASE language = "nodejs" -> 3000
      [] language = "python" -> 8000
      [] language = "java"   -> 8080
      [] OTHER               -> 8080

\* str(app_id): the uuid4 text of an application id (36 characters,
\* lower-case hex digits and hyphens)
AppIdStr(id) == <<"00000000-0000-4000-8000-00000000000", ToString(id)>>

\* image_name of line 261 and k8s_app_name of line 608
ImageNameMutant(id) == <<"user-app-">> \o LowerStr(AppIdStr(id))
ImageName(id)  == <<"user-app-">> \o LowerStr(AppIdStr(id)) \o <<":latest">>
K8sAppName(id) == <<"user-app-">> \o LowerStr(AppIdStr(id))

\* stderr texts of a failed docker build / kubectl apply
StderrTexts == { <<>>, Chars(BuildStderrLimit + 1) }

DockerfileName == <<"Dockerfile">>

\* the labels generate_dockerfile has a template for (lines 191-241)
Templated == {"nodejs", "python", "java"}

\* labels build_user_image is called with: one it has a template for, the
\* classifier's "unknown", and one no part of the program knows
BuildLabels == {"python", "unknown", "go"}

\* dockerfile_content.strip() for a label of Templated
dockerfile_content(language) ==
    [template |-> language, expose |-> PORT_MAP(language)]

NoDockerfile == [template |-> "none", expose |-> 0]

\* generate_dockerfile: the text it writes, or nothing (it returns None) for
\* a label without template and when open / write raises IOError
generate_dockerfileMutant(language, io) ==
    IF io = "IOError" THEN [written |-> FALSE, content |-> NoDockerfile]
    ELSE [written |-> TRUE, content |-> dockerfile_content(language)]
generate_dockerfile(language, io) ==
    IF language \notin Templated THEN [written |-> FALSE, content |-> NoDockerfile]
    ELSE IF io = "IOError" THEN [written |-> FALSE, content |-> NoDockerfile]
    ELSE [written |-> TRUE, content |-> dockerfile_content(language)]

\* what `docker build` does: it succeeds, exits non-zero with a stderr text,
\* cannot be started (no docker executable), or subprocess.run raises
\* another OSError
BuildOutcomes ==
    { [kind |-> "ok", stderr |-> <<>>],
      [kind |-> "notfound", stderr |-> <<>>],
      [kind |-> "oserror", stderr |-> <<>>] }
      \cup { [kind |-> "failed", stderr |-> s] : s \in StderrTexts }

BuildDetailMutant(stderr) ==
    <<"Docker image build failed: ">> \o stderr \o <<"...">>
BuildDetail(stderr) ==
    <<"Docker image build failed: ">> \o Slice(stderr, BuildStderrLimit) \o <<"...">>

\* the working directory after open(dockerfile_path, "w") and f.write
\* (lines 247-250): the Dockerfile is created, or the one there is rewritten
WriteDockerfileMutant(d) == [d EXCEPT !.files = {DockerfileName}]
WriteDockerfile(d) == [d EXCEPT !.files = @ \cup {DockerfileName}]

\* build_user_image(app_id, app_source_dir, language) on directory d whose
\* Dockerfile holds `recipe`: the directory and Dockerfile it leaves, the
\* image it built, the exception it raised and what it did on the way.
build_user_image(id, d, recipe, language, io, bo) ==
    LET g == generate_dockerfile(language, io)
    IN  IF ~g.written
        THEN [dir |-> d, recipe |-> recipe, built |-> FALSE,
              exc |-> "HTTPException", status |-> 500,
              detail |-> <<"Dockerfile generation failed for language ", language>>,
              events |-> <<>>]
        ELSE LET d2 == WriteDockerfile(d)
                 ev == << [op |-> "write", file |-> DockerfileName, ok |-> TRUE],
                          [op |-> "docker build", file |-> ImageName(id),
                           ok |-> bo.kind = "ok", outcome |-> bo.kind] >>
                 r  == [dir |-> d2, recipe |-> g.content, built |-> FALSE,
                        exc |-> "HTTPException", status |-> 500,
                        detail |-> <<>>, events |-> ev]
             IN  CASE bo.kind = "ok" ->
                        [r EXCEPT !.built = TRUE, !.exc = "none", !.status = 0]
                   [] bo.kind = "failed" ->
                        [r EXCEPT !.detail = BuildDetail(bo.stderr)]
                   [] bo.kind = "notfound" ->
                        [r EXCEPT !.detail = <<"Docker command not found on server.">>]
                   [] OTHER ->
                        [r EXCEPT !.exc = "OSError", !.detail = <<"[Errno]">>]

\* the build outcomes that matter for a call: the build tool is run only
\* when the Dockerfile was written
BuildEnv(language, io) ==
    IF generate_dockerfile(language, io).written
    THEN BuildOutcomes
    ELSE { [kind |-> "ok", stderr |-> <<>>] }

\* A call of build_user_image on its own, with any label.
BuildUserImage ==
    /\ inst.pc = "idle"
    /\ \E id \in AppIds, language \in BuildLabels, io \in {"none", "IOError"} :
         /\ dirs[id].exists
         /\ (language \notin Templated) => (io = "none")
         /\ \E bo \in BuildEnv(language, io) :
              LET b == build_user_image(id, dirs[id], dockerfile[id], language, io, bo)
              IN  /\ dirs' = [dirs EXCEPT ![id] = b.dir]
                  /\ dockerfile' = [dockerfile EXCEPT ![id] = b.recipe]
                  /\ images' = IF b.built THEN images \cup {ImageName(id)} ELSE images
                  /\ calls' = b.events
                  /\ resp' = [op |-> "build_user_image", status |-> b.status,
                              detail |-> b.detail, app_id |-> id,
                              cloned_branch |-> <<>>, exc |-> b.exc,
                              language |-> language]
    /\ UNCHANGED <<nextId, log, lastUpload, pat_token, remote, clone, attempts,
                   classified, fsinfo, templates, k8s, cluster, inst, ctx, normalized,
                   pipes, writes>>

(***************************************************************************)
(* /instrument (lines 570-676)                                             *)
(***************************************************************************)
DeploymentTemplate == "deployment.yaml.j2"
ServiceTemplate    == "service.yaml.j2"

\* the list the loop of lines 622-625 runs over
ManifestPlanMutant(k8s_app_name) ==
    << [template |-> ServiceTemplate, kind |-> "service",
        output |-> k8s_app_name \o <<"-service.yaml">>],
       [template |-> DeploymentTemplate, kind |-> "deployment",
        output |-> k8s_app_name \o <<"-deployment.yaml">>] >>
ManifestPlan(k8s_app_name) ==
    << [template |-> DeploymentTemplate, kind |-> "deployment",
        output |-> k8s_app_name \o <<"-deployment.yaml">>],
       [template |-> ServiceTemplate, kind |-> "service",
        output |-> k8s_app_name \o <<"-service.yaml">>] >>

\* the context of lines 609-616 (app ids carry no "_", so replace("_", "-")
\* leaves them as they are)
TemplateContextMutant(id, lang) ==
    [app_id_normalized |-> LowerStr(AppIdStr(id)),
     k8s_app_name |-> K8sAppName(id),
     image |-> ImageName(id),
     port |-> PORT_MAP(lang) + inst.before.status,
     language |-> lang,
     app_id |-> AppIdStr(id)]
TemplateContext(id, lang) ==
    [app_id_normalized |-> LowerStr(AppIdStr(id)),
     k8s_app_name |-> K8sAppName(id),
     image |-> ImageName(id),
     port |-> PORT_MAP(lang),
     language |-> lang,
     app_id |-> AppIdStr(id)]

\* template.render(**context): the text of the template with the context
\* put into it
Render(template, context) == [template |-> template, context |-> context]

\* what `kubectl apply` does: it succeeds, exits non-zero with a stderr
\* text, cannot be started, or is killed after the 60 s of line 651
ApplyOutcomes ==
    { [kind |-> "ok", stderr |-> <<>>],
      [kind |-> "notfound", stderr |-> <<>>],
      [kind |-> "timeout", stderr |-> <<>>] }
      \cup { [kind |-> "failed", stderr |-> s] : s \in StderrTexts }

\* the detail of line 661
ApplyDetail(output, stderr) ==
    LET stderr_msg == IF Strip(stderr) # <<>> THEN Strip(stderr) ELSE <<"No stderr.">>
    IN  <<"Failed to apply K8s manifest ">> \o output \o <<": ">>
            \o Slice(stderr_msg, ApplyStderrLimit) \o <<"...">>

\* open(output_path, "w") and f.write(rendered_content) (lines 635-636) on
\* the manifest output directory fs: the file is created, or truncated and
\* written anew
WriteTextMutant(fs, path, text) ==
    IF path \in DOMAIN fs THEN ((path \o <<".1">>) :> text) @@ fs
    ELSE (path :> text) @@ fs
WriteText(fs, path, text) == (path :> text) @@ fs

NoBefore == [status |-> 0, manifests_applied |-> <<>>]

InstIdle == [pc |-> "idle", app_id |-> 0, lang |-> "none", i |-> 1,
             manifests_applied |-> <<>>, before |-> NoBefore]

\* The handler has returned or raised: the request it served and the list
\* of applied manifests it had built are kept for reference.
Finished(c) == [InstIdle EXCEPT !.app_id = c.app_id, !.lang = c.lang,
                                !.manifests_applied = c.manifests_applied,
                                !.before = c.before]

\* the HTTP error instrument_app raises
InstrumentError(id, status, detail) ==
    [op |-> "instrument", status |-> status, detail |-> detail, app_id |-> id,
     cloned_branch |-> <<>>]

\* what the previous /instrument request came to
Before ==
    IF resp.op = "instrument"
    THEN [status |-> resp.status, manifests_applied |-> inst.manifests_applied]
    ELSE NoBefore

\* os.path.isdir(app_dir) of line 574
isdirMutant(d) == TRUE
isdir(d) == d.exists

\* instrument_app up to the manifest loop (lines 572-621)
InstrumentReceive ==
    /\ inst.pc = "idle"
    /\ clone.pc = "idle"
    /\ \E id \in AppIds :
         LET new  == [InstIdle EXCEPT !.app_id = id, !.before = Before]
             lang == detect_language(dirs[id])
             stop(status, detail) ==
                 /\ resp' = InstrumentError(id, status, detail)
                 /\ inst' = [new EXCEPT !.lang = lang]
                 /\ calls' = <<>>
                 /\ UNCHANGED <<dirs, dockerfile, images>>
         IN  IF ~isdir(dirs[id])
             THEN stop(404, <<"App not found. Please upload or clone first.">>)
             ELSE IF lang = "UnboundLocalError"
             THEN stop(500, <<"Internal Server Error">>)
             ELSE IF lang = "unknown"
             THEN stop(400, <<"Unsupported language or unable to detect language for Dockerfile generation.">>)
             ELSE \E io \in {"none", "IOError"} : \E bo \in BuildEnv(lang, io) :
                    LET b == build_user_image(id, dirs[id], dockerfile[id], lang, io, bo)
                    IN  /\ dirs' = [dirs EXCEPT ![id] = b.dir]
                        /\ dockerfile' = [dockerfile EXCEPT ![id] = b.recipe]
                        /\ images' = IF b.built THEN images \cup {ImageName(id)}
                                     ELSE images
                        /\ calls' = b.events
                        /\ CASE b.exc = "none" ->
                                  /\ inst' = [new EXCEPT !.pc = "loop", !.lang = lang]
                                  /\ resp' = NoResp
                             [] b.exc = "HTTPException" ->
                                  /\ inst' = [new EXCEPT !.lang = lang]
                                  /\ resp' = InstrumentError(id, b.status, b.detail)
                             [] OTHER ->
                                  /\ inst' = [new EXCEPT !.lang = lang]
                                  /\ resp' = InstrumentError(id, 500,
                                       <<"An unexpected error occurred during image build: ">>
                                           \o b.detail)
    /\ UNCHANGED <<nextId, log, lastUpload, pat_token, remote, clone, attempts,
                   classified, fsinfo, templates, k8s, cluster, ctx, normalized,
                   pipes, writes>>

\* One iteration of the manifest loop (lines 622-667): render the template,
\* write the manifest, apply it.
InstrumentManifest ==
    /\ inst.pc = "loop"
    /\ LET id   == inst.app_id
           m    == ManifestPlan(K8sAppName(id))[inst.i]
           text == Render(m.template, TemplateContext(id, inst.lang))
           rendered(ok) == [op |-> "render", file |-> <<m.template>>, ok |-> ok]
           written(ok)  == [op |-> "write", file |-> m.output, ok |-> ok]
           applied(ok)  == [op |-> "kubectl apply", file |-> m.output, ok |-> ok]
           fail(detail) ==
               /\ resp' = InstrumentError(id, 500, detail)
               /\ inst' = Finished(inst)
       IN  IF m.template \notin templates
           THEN /\ calls' = Append(calls, rendered(FALSE))
                /\ fail(<<"Failed to render K8s template ", m.template, ": ",
                          m.template>>)
                /\ UNCHANGED <<k8s, cluster>>
           ELSE \/ /\ calls' = calls \o <<rendered(TRUE), written(FALSE)>>
                   /\ fail(<<"Failed to write K8s manifest file: ", "[Errno]">>)
                   /\ UNCHANGED <<k8s, cluster>>
                \/ \E ao \in ApplyOutcomes, landed \in BOOLEAN :
                     \* a kubectl killed by the timeout may have reached the cluster
                     /\ (ao.kind = "ok") => landed
                     /\ (ao.kind \in {"failed", "notfound"}) => ~landed
                     /\ k8s' = WriteText(k8s, m.output, text)
                     /\ calls' = calls \o <<rendered(TRUE), written(TRUE),
                                            applied(ao.kind = "ok")>>
                     /\ cluster' = IF landed
                                   THEN (<<m.kind, K8sAppName(id)>> :> text) @@ cluster
                                   ELSE cluster
                     /\ CASE ao.kind = "ok" ->
                               /\ inst' = [inst EXCEPT
                                    !.manifests_applied = Append(@, m.output),
                                    !.i = @ + 1,
                                    !.pc = IF inst.i = Len(ManifestPlan(K8sAppName(id)))
                                           THEN "return" ELSE "loop"]
                               /\ UNCHANGED resp
                          [] ao.kind = "failed" ->
                               fail(ApplyDetail(m.output, ao.stderr))
                          [] ao.kind = "notfound" ->
                               fail(<<"kubectl command not found on server.">>)
                          [] OTHER ->
                               fail(<<"kubectl apply timed out for ">> \o m.output
                                        \o <<".">>)
    /\ UNCHANGED <<dirs, nextId, log, lastUpload, pat_token, remote, clone, attempts,
                   classified, fsinfo, templates, dockerfile, images, ctx, normalized,
                   pipes, writes>>

\* the return of lines 670-676
InstrumentReturn ==
    /\ inst.pc = "return"
    /\ resp' = [op |-> "instrument", status |-> 200,
                detail |-> <<"Application ">> \o AppIdStr(inst.app_id)
                              \o <<" instrumented and deployment initiated.">>,
                app_id |-> inst.app_id, cloned_branch |-> <<>>,
                image_built |-> ImageName(inst.app_id),
                manifests_applied |-> inst.manifests_applied,
                k8s_app_name |-> K8sAppName(inst.app_id)]
    /\ inst' = Finished(inst)
    /\ UNCHANGED <<dirs, nextId, log, lastUpload, pat_token, remote, clone, attempts,
                   classified, fsinfo, templates, k8s, cluster, dockerfile, images,
                   calls, ctx, normalized, pipes, writes>>

(***************************************************************************)
(* get_project_context_for_ai (lines 295-407)                              *)
(*                                                                         *)
(* The function is handed a working directory W = [dir, fstat, listing]:   *)
(* the directory, the os.stat of its files (size in bytes, and whether the *)
(* file can be opened), and the order in which the operating system lists  *)
(* directory entries.                                                      *)
(***************************************************************************)
MAX_CONTEXT_FILES_AI       == 7
MAX_FILE_SIZE_AI_BYTES     == 15360
MAX_TOTAL_CONTENT_AI_CHARS == 12000
max_tree_lines             == 25
MaxTreeLevel               == 3
MaxTreeFiles               == 4
MaxSourceDepth             == 2

\* the list the three walks prune (lines 305, 376, 391)
context_excluded_dirs ==
    { <<".git">>, <<"node_modules">>, <<"__pycache__">>, <<"venv">>, <<"env">>,
      <<".venv">>, <<"target">>, <<"build">>, <<"dist">>, <<".DS_Store">> }

\* the directories of a tree: the root <<>> and every directory above a file
DirsOf(files) ==
    { <<>> } \cup UNION { { SubSeq(DirParts(p), 1, k) : k \in 1..Len(DirParts(p)) } :
                          p \in files }

\* the directories os.walk visits when the loop body prunes `excluded`
WalkedDirs(d, excluded) ==
    IF ~d.exists THEN {}
    ELSE { r \in DirsOf(d.files) : \A i \in 1..Len(r) : r[i] \notin excluded }

\* os.path.join(root, name), relative to the working directory
JoinPath(root, name) ==
    Join([i \in 1..Len(root) |-> root[i] \o <<"/">>]) \o name

\* the names of the files of directory `root`
FileNames(d, root) == { BaseName(p) : p \in { q \in d.files : DirParts(q) = root } }

\* position of a name in the order the operating system lists entries
Rank(name, listing) == CHOOSE i \in 1..Len(listing) : listing[i] = name

\* The element of a singleton.  TheOne({ e(x) : x \in {v} }) is e(v) with v
\* evaluated once, however often e uses x.
TheOne(S) == CHOOSE x \in S : TRUE

\* the elements of S as a sequence of ascending key (the keys are distinct)
SortByKey(S, key) ==
    TheOne({ [i \in 1..Cardinality(T) |->
                CHOOSE x \in T : Cardinality({ y \in T : k[y] < k[x] }) = i - 1] :
             T \in {S}, k \in {key} })

\* os.walk(top, topdown=True) visits a directory before its subdirectories
\* and these in listing order: ascending order of the ranks of the
\* components, first component first, a missing component counting as 0.
RECURSIVE DirKey(_, _, _, _, _)
DirKey(r, listing, depth, i, acc) ==
    IF i > depth THEN acc
    ELSE DirKey(r, listing, depth, i + 1,
                acc * (Len(listing) + 1)
                    + (IF i <= Len(r) THEN Rank(r[i], listing) ELSE 0))

os_walk(W, excluded) ==
    LET S     == WalkedDirs(W.dir, excluded)
        depth == CHOOSE n \in { Len(r) : r \in S } : \A r \in S : Len(r) <= n
    IN  IF S = {} THEN << >>
        ELSE SortByKey(S, [r \in S |-> DirKey(r, W.listing, depth, 1, 0)])

\* the files list os.walk hands out for directory `root`
ListedFiles(W, root) ==
    LET S == FileNames(W.dir, root)
    IN  SortByKey(S, [n \in S |-> Rank(n, W.listing)])

(***************************************************************************)
(* 1. the file tree (lines 300-329)                                        *)
(***************************************************************************)
TreeHeader == <<"Project structure (partial):\n">>

\* "  " * level
Indent(level) == [i \in 1..level |-> "  "]

\* The lines the loop of lines 304-325 adds for the directories ds[k..],
\* `lines` being those added so far.  tree_lines counts all of them but the
\* closing "... (more files/dirs)" line.
RECURSIVE TreeLines(_, _, _, _, _)
TreeLines(W, id, ds, k, lines) ==
    IF k > Len(ds) THEN lines
    ELSE LET root  == ds[k]
             level == Len(root)
             shown == IF root = <<>> THEN AppIdStr(id) ELSE root[level]
             files == SelectSeq(ListedFiles(W, root), LAMBDA n : n # <<".DS_Store">>)
             l1    == IF Len(lines) < max_tree_lines
                      THEN Append(lines, Indent(level) \o shown \o <<"/\n">>)
                      ELSE lines
             room  == max_tree_lines - Len(l1)
         IN  IF level > MaxTreeLevel
             THEN TreeLines(W, id, ds, k + 1, lines)
             ELSE TheOne({
                    TheOne({ IF Len(l2) >= max_tree_lines
                             THEN Append(l2, Indent(level)
                                             \o <<"  ", "... (more files/dirs)\n">>)
                             ELSE TreeLines(W, id, ds, k + 1, l2) :
                             l2 \in { l1 \o [j \in 1..(IF Len(first) < room
                                                       THEN Len(first) ELSE room) |->
                                              Indent(level) \o <<"  ">> \o first[j]
                                                            \o <<"\n">>] } }) :
                    first \in { SubSeq(files, 1, IF Len(files) < MaxTreeFiles
                                                 THEN Len(files) ELSE MaxTreeFiles) } })

\* tree_str, and whether it is appended (tree_lines > 0, line 327)
TreeStr(W, id) ==
    TheOne({ [text |-> TreeHeader \o Join(lines), tree_lines_positive |-> lines # <<>>] :
             lines \in { TreeLines(W, id, os_walk(W, context_excluded_dirs), 1, <<>>) } })

(***************************************************************************)
(* 2. key files and source files (lines 331-400)                           *)
(***************************************************************************)
ReadmeMd == <<"README", ".", "md">>

\* primary_key_files_map.get(language, [])
primary_key_files(language) ==
    CASE language = "node"   -> << PackageJson >>
      [] language = "python" -> << <<"requirements", ".", "txt">>,
                                   <<"pyproject", ".", "toml">>,
                                   <<"setup", ".", "py">> >>
      [] language = "java"   -> << <<"pom", ".", "xml">>, <<"build", ".", "gradle">> >>
      [] OTHER               -> << >>

\* secondary_key_files_map.get(language, [])
secondary_key_files(language) ==
    CASE language = "node"   -> << <<"server", ".", "js">>, <<"app", ".", "js">>,
                                   <<"index", ".", "js">>,
                                   <<"vite", ".", "config", ".", "js">>,
                                   <<"next", ".", "config", ".", "js">> >>
      [] language = "python" -> << <<"main", ".", "py">>, <<"app", ".", "py">>,
                                   <<"wsgi", ".", "py">>, <<"asgi", ".", "py">> >>
      [] language = "java"   -> << <<"Main", ".", "java">>,
                                   <<"Application", ".", "java">>,
                                   <<"application", ".", "properties">>,
                                   <<"application", ".", "yml">> >>
      [] OTHER               -> << >>

\* candidate_files_ordered (lines 343-345)
candidate_files_ordered(language) ==
    <<ReadmeMd>> \o primary_key_files(language) \o secondary_key_files(language)

\* source_extensions (lines 385-387)
source_extensions(language) ==
    CASE language = "python" -> { <<".", "py">> }
      [] language = "node"   -> { <<".", "js">>, <<".", "jsx">>, <<".", "ts">>,
                                  <<".", "tsx">> }
      [] language = "java"   -> { <<".", "java">> }
      [] OTHER               -> {}

\* the header of line 361
ContentHeader(rel_path) == <<"\n--- Content of ">> \o rel_path \o <<" ---\n">>

\* the locals of the function after the tree was built
AfterTree(W, id) ==
    TheOne({ [context_parts |-> IF tree.tree_lines_positive
                                THEN << [kind |-> "tree", text |-> tree.text,
                                         file |-> <<>>, content_len |-> 0] >>
                                ELSE << >>,
              current_chars_count |-> IF tree.tree_lines_positive
                                      THEN CharLen(tree.text) ELSE 0,
              files_read_count |-> 0,
              processed_paths |-> {},
              opened |-> << >>] :
             tree \in { TreeStr(W, id) } })

BudgetLeftMutant(st) == st.files_read_count <= MAX_CONTEXT_FILES_AI
\* neither budget is used up (lines 351, 383, 389, 400)
BudgetLeft(st) ==
    /\ st.files_read_count < MAX_CONTEXT_FILES_AI
    /\ st.current_chars_count < MAX_TOTAL_CONTENT_AI_CHARS

\* os.path.getsize, open or read raised: the except clause of line 371 logs
\* it and the function returns True (line 373), the locals as they were
SkippedMutant(st) == [st |-> st, ret |-> FALSE]
Skipped(st) == [st |-> st, ret |-> TRUE]

\* read_and_append(file_path, hint) (lines 349-373): the locals it leaves and
\* the value it returns.  A file is taken to hold one character per byte.
\* `opened` lists the files whose content was read, with the counters at
\* that moment.
read_and_append(W, st, file_path) ==
    LET stat   == W.fstat[file_path]
        header == ContentHeader(file_path)
        added  == stat.size + CharLen(header)
        read   == [st EXCEPT !.opened = Append(@,
                      [file |-> file_path,
                       files_read_count |-> st.files_read_count,
                       current_chars_count |-> st.current_chars_count])]
    IN  IF ~BudgetLeft(st) THEN [st |-> st, ret |-> FALSE]
        ELSE IF ~stat.readable THEN Skipped(st)
        ELSE IF ~(0 < stat.size /\ stat.size <= MAX_FILE_SIZE_AI_BYTES)
        THEN [st |-> st, ret |-> TRUE]
        ELSE IF st.current_chars_count + added < MAX_TOTAL_CONTENT_AI_CHARS
        THEN [st |-> [read EXCEPT
                        !.context_parts = Append(@,
                            [kind |-> "file", text |-> header, file |-> file_path,
                             content_len |-> stat.size]),
                        !.current_chars_count = @ + added,
                        !.files_read_count = @ + 1,
                        !.processed_paths = @ \cup {file_path}],
              ret |-> TRUE]
        ELSE [st |-> read, ret |-> st.files_read_count = 0]

\* the inner loop of lines 378-382 over the candidates cands[j..]
RECURSIVE KeyFilesIn(_, _, _, _, _)
KeyFilesIn(W, st, root, cands, j) ==
    IF j > Len(cands) THEN st
    ELSE LET file_path == JoinPath(root, cands[j])
         IN  IF cands[j] \in FileNames(W.dir, root) /\ file_path \notin st.processed_paths
             THEN TheOne({ IF r.ret THEN KeyFilesIn(W, r.st, root, cands, j + 1)
                           ELSE r.st :
                           r \in { read_and_append(W, st, file_path) } })
             ELSE KeyFilesIn(W, st, root, cands, j + 1)

\* the walk of lines 375-383 over the directories ds[k..]
RECURSIVE KeyWalk(_, _, _, _, _)
KeyWalk(W, st, ds, k, cands) ==
    IF k > Len(ds) THEN st
    ELSE TheOne({ IF BudgetLeft(s2) THEN KeyWalk(W, s2, ds, k + 1, cands) ELSE s2 :
                  s2 \in { KeyFilesIn(W, st, ds[k], cands, 1) } })

\* the file names of the model in the order str comparison puts them
\* (code points), for the second component of the sort key of line 392
Alphabetical ==
    << <<".DS_Store">>, <<"Main", ".", "java">>, <<"README", ".", "md">>,
       <<"app", ".", "py">>, <<"asgi", ".", "py">>, <<"core", ".", "py">>,
       <<"deep", ".", "py">>, <<"lib", ".", "jar">>, <<"lib", ".", "py">>,
       <<"main", ".", "py">>, <<"package", ".", "json">>,
       <<"pyproject", ".", "toml">>, <<"requirements", ".", "txt">>,
       <<"server", ".", "js">>, <<"setup", ".", "py">>,
       <<"test_app", ".", "py">>, <<"util", ".", "py">>, <<"wsgi", ".", "py">> >>

\* files.sort(key=lambda name: (len(name), name))
SortedFilesMutant(W, root) ==
    LET S == FileNames(W.dir, root)
    IN  SortByKey(S, [n \in S |-> Rank(n, Alphabetical)])
SortedFiles(W, root) ==
    LET S == FileNames(W.dir, root)
    IN  SortByKey(S, [n \in S |-> CharLen(n) * (Len(Alphabetical) + 1)
                                     + Rank(n, Alphabetical)])

\* the inner loop of lines 394-399 over the files fs[j..]
RECURSIVE SourceFilesIn(_, _, _, _, _, _)
SourceFilesIn(W, st, root, fs, j, exts) ==
    IF j > Len(fs) THEN st
    ELSE LET file_path == JoinPath(root, fs[j])
         IN  IF /\ \E ext \in exts : EndsWith(fs[j], ext)
                /\ file_path \notin st.processed_paths
                /\ Len(root) <= MaxSourceDepth
             THEN TheOne({ IF r.ret THEN SourceFilesIn(W, r.st, root, fs, j + 1, exts)
                           ELSE r.st :
                           r \in { read_and_append(W, st, file_path) } })
             ELSE SourceFilesIn(W, st, root, fs, j + 1, exts)

\* the walk of lines 390-400 over the directories ds[k..]
RECURSIVE SourceWalk(_, _, _, _, _)
SourceWalk(W, st, ds, k, exts) ==
    IF k > Len(ds) THEN st
    ELSE TheOne({ IF BudgetLeft(s2) THEN SourceWalk(W, s2, ds, k + 1, exts) ELSE s2 :
                  s2 \in { TheOne({ SourceFilesIn(W, st, ds[k], fs, 1, exts) :
                                     fs \in { SortedFiles(W, ds[k]) } }) } })

\* the text of line 403, as a text of one part
Sentinel ==
    << [kind |-> "sentinel",
        text |-> <<"No readable project files found or project is empty; cannot provide AI analysis.">>,
        file |-> << >>, content_len |-> 0] >>

\* get_project_context_for_ai(app_path, language): the locals at the end and
\* the value returned (the parts "".join puts together, or the sentinel)
get_project_context_for_ai(W, id, language) ==
    LET exts == source_extensions(language)
        Rest(ds, s1) ==
            TheOne({ TheOne({ [locals |-> s3,
                               after_key_files |-> s2,
                               returned |-> IF s3.context_parts = <<>> THEN Sentinel
                                            ELSE s3.context_parts] :
                              s3 \in { IF exts # {} /\ BudgetLeft(s2)
                                       THEN SourceWalk(W, s2, ds, 1, exts)
                                       ELSE s2 } }) :
                     s2 \in { KeyWalk(W, s1, ds, 1, candidate_files_ordered(language)) } })
    IN  TheOne({ Rest(ds, s1) : ds \in { os_walk(W, context_excluded_dirs) },
                               s1 \in { AfterTree(W, id) } })

PythonProject ==
    { ReadmeMd, <<"requirements", ".", "txt">>, <<"pyproject", ".", "toml">>,
      <<"setup", ".", "py">>, <<"main", ".", "py">>, <<"app", ".", "py">>,
      <<"wsgi", ".", "py">>, <<"asgi", ".", "py">>, <<"util", ".", "py">>,
      <<"src", "/", "core", ".", "py">>,
      <<"a", "/", "b", "/", "c", "/", "deep", ".", "py">>,
      <<"tests", "/", "test_app", ".", "py">>,
      <<"node_modules", "/", "lib", ".", "py">> }

NodeProject == { PackageJson, <<"server", ".", "js">>, ReadmeMd, <<".DS_Store">> }

JavaProject == { <<"Main", ".", "java">>, <<"target", "/", "lib", ".", "jar">> }

\* a Python project with few key files and source files at several depths
SourceProject ==
    { <<"main", ".", "py">>, <<"util", ".", "py">>, <<"test_app", ".", "py">>,
      <<"tests", "/", "test_app", ".", "py">>,
      <<"a", "/", "b", "/", "lib", ".", "py">>,
      <<"a", "/", "b", "/", "c", "/", "deep", ".", "py">>,
      <<"src", "/", ".DS_Store">>,
      <<"node_modules", "/", "lib", ".", "py">> }

\* a Python project of two key files, both of which may be large
TightProject == { ReadmeMd, <<"setup", ".", "py">> }

ContextDirs ==
    { [EmptyDir EXCEPT !.files = fs] :
        fs \in { {}, PythonProject, NodeProject, JavaProject, SourceProject,
                 TightProject } }

\* an order in which the operating system may list directory entries, and
\* the reverse of it
Listing ==
    Alphabetical \o << <<"a">>, <<"b">>, <<"c">>, <<"node_modules">>, <<"src">>,
                       <<"target">>, <<"tests">> >>
ScanOrders == { Listing, [i \in 1..Len(Listing) |-> Listing[Len(Listing) + 1 - i]] }

\* os.stat of a file: most files are small and readable; up to MaxOddFiles
\* files are empty, take more than half of the character budget, are
\* larger than MAX_FILE_SIZE_AI_BYTES, or cannot be opened
DefaultStat == [size |-> 100, readable |-> TRUE]
OddStats ==
    { [size |-> 0, readable |-> TRUE],
      [size |-> 6000, readable |-> TRUE],
      [size |-> MAX_FILE_SIZE_AI_BYTES + 1, readable |-> TRUE],
      [size |-> 100, readable |-> FALSE] }

\* the files whose size or mode the enumeration varies: a key file of each
\* project, one that comes late among the key files, and a plain source file
OddCandidates ==
    { ReadmeMd, <<"setup", ".", "py">>, <<"util", ".", "py">>,
      <<"server", ".", "js">>, <<"Main", ".", "java">> }

FsInfos(files) ==
    UNION { { [stat |-> [p \in files |-> IF p \in odd THEN g[p] ELSE DefaultStat],
               listing |-> l] : g \in [odd -> OddStats], l \in ScanOrders } :
            odd \in { x \in SUBSET (files \cap OddCandidates) :
                        Cardinality(x) <= MaxOddFiles } }

NoFsInfo == [stat |-> << >>, listing |-> << >>]
NoCtx == [app_id |-> 0, language |-> "none", files_read_count |-> 0,
          current_chars_count |-> 0, opened |-> << >>, key_opened |-> 0,
          returned |-> << >>]

\* A call get_project_context_for_ai(app_dir, language) with the label the
\* classifier gives the directory, as /suggestions makes it (lines 708-711).
ExtractContext ==
    /\ \E id \in AppIds :
         \E language \in { detect_language(dirs[id]) } :
           /\ language \in Labels
           /\ \E r \in { get_project_context_for_ai(
                             [dir |-> dirs[id], fstat |-> fsinfo.stat,
                              listing |-> fsinfo.listing], id, language) } :
                ctx' = [app_id |-> id, language |-> language,
                        files_read_count |-> r.locals.files_read_count,
                        current_chars_count |-> r.locals.current_chars_count,
                        opened |-> r.locals.opened,
                        key_opened |-> Len(r.after_key_files.opened),
                        returned |-> r.returned]
    /\ UNCHANGED <<dirs, nextId, resp, log, lastUpload, pat_token, remote, clone,
                   attempts, classified, fsinfo, templates, k8s, cluster, images,
                   inst, dockerfile, calls, normalized, pipes, writes>>

(***************************************************************************)
(* /suggestions: ai_code_analysis (lines 694-796)                          *)
(***************************************************************************)
\* prompt_lang_desc of line 717
prompt_lang_desc(language) == IF language # "unknown" THEN language ELSE "an application"

\* the prompt of lines 718-748
SuggestionPrompt(id, language) ==
    <<"You are an expert software observability and deployment assistant.",
      " An application with app_id '">> \o AppIdStr(id)
      \o <<"' (likely deployed in Kubernetes as '">> \o K8sAppName(id)
      \o <<"') has been identified as a '", prompt_lang_desc(language), "' project.",
           " Please provide concise, practical, and brief suggestions",
           " ### 1. Key Observability Metrics to Monitor for ",
           prompt_lang_desc(language),
           " ### 2. Common Troubleshooting Steps if the Application Fails in Kubernetes",
           " ### 3. One Best Practice for Logging in a Containerized ",
           prompt_lang_desc(language), " Application",
           " ### 4. Liveness and Readiness Probe Configuration for Kubernetes",
           " ### 5. How can this ", prompt_lang_desc(language),
           " codebase be instrumented for observability?",
           " Ensure the overall response is well-structured Markdown.">>

\* the test of line 713 on the text the extractor returned: the sentinel
\* holds both phrases; `phrase` says that a file that was read holds one
TooLittleContext(returned, phrase) ==
    \/ returned = Sentinel
    \/ phrase /\ \E k \in 1..Len(returned) : returned[k].kind = "file"

\* what openai_client.chat.completions.create does (lines 755-763, 773-796)
GenerateOutcomes ==
    { [kind |-> "ok", status |-> 200],
      [kind |-> "APIConnectionError", status |-> 503],
      [kind |-> "RateLimitError", status |-> 429],
      [kind |-> "APIStatusError", status |-> 401],
      [kind |-> "Exception", status |-> 500] }

\* the detail of the HTTP error for an outcome of the collaborator
GenerateDetail(kind) ==
    CASE kind = "APIConnectionError" ->
            <<"AI service connection error: ", "APIConnectionError">>
      [] kind = "RateLimitError" ->
            <<"AI service rate limit exceeded. Please try again later.">>
      [] kind = "APIStatusError" -> <<"AI service API error: ", "[message]">>
      [] kind = "Exception" ->
            <<"An unexpected error occurred during AI analysis: ", "[message]">>
      [] OTHER -> <<"[suggestion_text]">>

\* the response of /suggestions; prompt is the text handed to the
\* collaborator, empty when the request ended before
SuggestionResponse(id, status, detail, prompt) ==
    [op |-> "suggestions", status |-> status, detail |-> detail, app_id |-> id,
     cloned_branch |-> <<>>, prompt |-> prompt]

\* POST /suggestions.  `configured` says whether OPENAI_API_KEY was set when
\* the server started (line 33).
Suggestions ==
    /\ \E id \in AppIds, configured \in BOOLEAN :
         \E language \in { detect_language(dirs[id]) } :
           LET stop(status, detail) ==
                   /\ resp' = SuggestionResponse(id, status, detail, <<>>)
                   /\ UNCHANGED ctx
           IN  IF ~configured
               THEN stop(503, <<"AI service unavailable: OpenAI API key not configured.">>)
               ELSE IF ~dirs[id].exists
               THEN stop(404, <<"App not found for AI analysis. Please upload or clone first.">>)
               ELSE IF language = "UnboundLocalError"
               THEN stop(500, <<"Internal Server Error">>)
               ELSE \E r \in { get_project_context_for_ai(
                                   [dir |-> dirs[id], fstat |-> fsinfo.stat,
                                    listing |-> fsinfo.listing], id, language) } :
                      /\ ctx' = [app_id |-> id, language |-> language,
                                 files_read_count |-> r.locals.files_read_count,
                                 current_chars_count |-> r.locals.current_chars_count,
                                 opened |-> r.locals.opened,
                                 key_opened |-> Len(r.after_key_files.opened),
                                 returned |-> r.returned]
                      /\ \E phrase \in BOOLEAN, go \in GenerateOutcomes :
                           IF TooLittleContext(r.returned, phrase)
                           THEN resp' = SuggestionResponse(id, 400,
                                   <<"Could not gather sufficient project context for AI analysis. Project might be empty or unreadable.">>,
                                   <<>>)
                           ELSE resp' = SuggestionResponse(id, go.status,
                                   GenerateDetail(go.kind),
                                   SuggestionPrompt(id, language))
    /\ UNCHANGED <<dirs, nextId, log, lastUpload, pat_token, remote, clone,
                   attempts, classified, fsinfo, templates, k8s, cluster, images,
                   inst, dockerfile, calls, normalized, pipes, writes>>

(***************************************************************************)
(* Pipelines of several applications, side by side                         *)
(*                                                                         *)
(* Each application is onboarded by its own requests: /upload or /clone,   *)
(* then /instrument.  Requests for different applications may be served    *)
(* by different worker processes, so the steps of their handlers           *)
(* interleave; all of them work on the same filesystem, container engine   *)
(* and cluster.  `writes` keeps every path a step wrote (or removed) and   *)
(* every image and resource name it produced, with the application the     *)
(* request was for.                                                        *)
(***************************************************************************)
BASE_DIR       == <<"user-apps">>
K8S_OUTPUT_DIR == <<"k8s-generated">>

\* app_dir = os.path.join(BASE_DIR, app_id) of lines 413, 451 and 572
app_dirMutant(id) == BASE_DIR
app_dir(id) == BASE_DIR \o <<"/">> \o AppIdStr(id)

\* os.path.join(dir, name)
PathIn(dir, name) == dir \o <<"/">> \o name

Written(id, kind, name) == [app_id |-> id, kind |-> kind, name |-> name]

NoPipe == [pc |-> "none", source |-> "none", lang |-> "none", i |-> 1,
           written |-> 0]

\* the archives uploaded: one that is extracted, one that is refused
PipelinePayloads ==
    { [wellformed |-> TRUE, names |-> <<PackageJson>>],
      [wellformed |-> TRUE, names |-> <<PackageJson, <<"/", "etc", "/", "passwd">>>>] }

\* upload_zip and clone_repo up to the creation of the working directory
\* (lines 412-414; lines 450-451 and 503-505)
PipelineStart ==
    /\ nextId < MaxPipelines
    /\ \E source \in {"upload", "clone"} :
         LET id == nextId + 1
             d  == dirs[id]
         IN  /\ dirs' = [dirs EXCEPT ![id] =
                           IF source = "upload" THEN Makedirs(d)
                           ELSE Makedirs(IF d.exists THEN Rmtree(d) ELSE d)]
             /\ pipes' = [pipes EXCEPT ![id] =
                            [NoPipe EXCEPT !.pc = "acquiring", !.source = source]]
             /\ writes' = writes \cup { Written(id, "path", app_dir(id)) }
    /\ nextId' = nextId + 1
    /\ UNCHANGED <<resp, log, lastUpload, pat_token, remote, clone, attempts,
                   classified, fsinfo, templates, k8s, cluster, images, inst,
                   dockerfile, calls, ctx, normalized>>

\* the rest of upload_zip (lines 417-445), and of clone_repo for a remote
\* that has the branch or refuses the clone (lines 507-567)
PipelineAcquire ==
    \E id \in AppIds :
      /\ pipes[id].pc = "acquiring"
      /\ IF pipes[id].source = "upload"
         THEN \E payload \in PipelinePayloads :
                LET r   == UploadExcept(UploadTry(dirs[id], payload, "none", 0))
                    fin == UploadFinally(r.dir)
                IN  /\ dirs' = [dirs EXCEPT ![id] = fin]
                    /\ writes' = writes
                          \cup { Written(id, "path", PathIn(app_dir(id), ZipName)) }
                          \cup { Written(id, "path", PathIn(app_dir(id), f)) :
                                   f \in fin.files }
                    /\ pipes' = [pipes EXCEPT ![id].pc =
                                   IF r.status = 200 THEN "acquired" ELSE "stopped"]
         ELSE \E ok \in BOOLEAN :
                /\ dirs' = [dirs EXCEPT ![id] =
                              IF ok THEN [EmptyDir EXCEPT !.files = {Checkout(Main)}]
                              ELSE FailureCleanup(EmptyDir)]
                /\ writes' = writes
                      \cup (IF ok
                            THEN { Written(id, "path",
                                           PathIn(app_dir(id), Checkout(Main))) }
                            ELSE {})
                /\ pipes' = [pipes EXCEPT ![id].pc =
                               IF ok THEN "acquired" ELSE "stopped"]
      /\ UNCHANGED <<nextId, resp, log, lastUpload, pat_token, remote, clone,
                     attempts, classified, fsinfo, templates, k8s, cluster, images,
                     inst, dockerfile, calls, ctx, normalized>>

\* instrument_app up to the manifest loop (lines 572-621)
PipelineSynthesize ==
    \E id \in AppIds :
      /\ pipes[id].pc = "acquired"
      /\ isdir(dirs[id])
      /\ LET lang == detect_language(dirs[id])
         IN  IF lang \in {"unknown", "UnboundLocalError"}
             THEN /\ pipes' = [pipes EXCEPT ![id].pc = "stopped", ![id].lang = lang]
                  /\ UNCHANGED <<dirs, dockerfile, images, writes>>
             ELSE \E bo \in { o \in BuildOutcomes : o.stderr = << >> } :
                    LET b == build_user_image(id, dirs[id], dockerfile[id], lang,
                                              "none", bo)
                    IN  /\ dirs' = [dirs EXCEPT ![id] = b.dir]
                        /\ dockerfile' = [dockerfile EXCEPT ![id] = b.recipe]
                        /\ images' = IF b.built THEN images \cup {ImageName(id)}
                                     ELSE images
                        /\ writes' = writes
                              \cup { Written(id, "path",
                                             PathIn(app_dir(id), DockerfileName)) }
                              \cup (IF b.built
                                    THEN { Written(id, "image", ImageName(id)) }
                                    ELSE {})
                        /\ pipes' = [pipes EXCEPT
                                       ![id].lang = lang,
                                       ![id].pc = IF b.exc = "none" THEN "manifests"
                                                  ELSE "stopped"]
      /\ UNCHANGED <<nextId, resp, log, lastUpload, pat_token, remote, clone,
                     attempts, classified, fsinfo, templates, k8s, cluster, inst,
                     calls, ctx, normalized>>

\* one iteration of the manifest loop of instrument_app (lines 622-667)
PipelineManifest ==
    \E id \in AppIds :
      /\ pipes[id].pc = "manifests"
      /\ LET m    == ManifestPlan(K8sAppName(id))[pipes[id].i]
             text == Render(m.template, TemplateContext(id, pipes[id].lang))
             last == pipes[id].i = Len(ManifestPlan(K8sAppName(id)))
         IN  /\ m.template \in templates
             /\ \E ao \in { o \in ApplyOutcomes : o.kind \in {"ok", "notfound"} } :
                  /\ k8s' = WriteText(k8s, m.output, text)
                  /\ cluster' = IF ao.kind = "ok"
                                THEN (<<m.kind, K8sAppName(id)>> :> text) @@ cluster
                                ELSE cluster
                  /\ writes' = writes
                        \cup { Written(id, "path", PathIn(K8S_OUTPUT_DIR, m.output)) }
                        \cup (IF ao.kind = "ok"
                              THEN { Written(id, m.kind, K8sAppName(id)) }
                              ELSE {})
                  /\ pipes' = [pipes EXCEPT
                                 ![id].written = @ + 1,
                                 ![id].i = IF ao.kind = "ok" THEN @ + 1 ELSE @,
                                 ![id].pc = IF ao.kind # "ok" THEN "stopped"
                                            ELSE IF last THEN "done"
                                            ELSE "manifests"]
      /\ UNCHANGED <<dirs, nextId, resp, log, lastUpload, pat_token, remote, clone,
                     attempts, classified, fsinfo, templates, images, inst,
                     dockerfile, calls, ctx, normalized>>

(***************************************************************************)
(* Specifications                                                          *)
(***************************************************************************)
\* nothing was classified, built, rendered, applied or extracted yet
PipelineIdle ==
    /\ classified = NotClassified
    /\ k8s = <<>>
    /\ cluster = <<>>
    /\ images = {}
    /\ inst = InstIdle
    /\ dockerfile = [id \in AppIds |-> NoDockerfile]
    /\ calls = <<>>
    /\ ctx = NoCtx
    /\ pipes = [id \in AppIds |-> NoPipe]
    /\ writes = {}

\* One of the working directories of W stands under application id 1, left
\* there by an earlier /upload or /clone request that has returned.
Acquired(W) ==
    /\ \E w \in W : dirs = [id \in AppIds |-> IF id = 1 THEN w ELSE NoDir]
    /\ nextId = 1
    /\ resp = NoResp
    /\ log = {}
    /\ lastUpload = [payload |-> [wellformed |-> FALSE, names |-> <<>>],
                     io |-> "none", partial |-> 0]
    /\ pat_token = [set |-> FALSE, s |-> <<>>]
    /\ remote = [branches |-> {}]
    /\ clone = Idle
    /\ attempts = <<>>

Init ==
    /\ dirs = [id \in AppIds |-> NoDir]
    /\ nextId = 0
    /\ resp = NoResp
    /\ log = {}
    /\ lastUpload = [payload |-> [wellformed |-> FALSE, names |-> <<>>],
                     io |-> "none", partial |-> 0]
    /\ pat_token \in PatTokens
    /\ remote = [branches |-> {}]
    /\ clone = Idle
    /\ attempts = <<>>
    /\ PipelineIdle
    /\ templates = {DeploymentTemplate, ServiceTemplate}
    /\ normalized = NotNormalized
    /\ fsinfo = NoFsInfo

\* /upload requests alone
NextUpload == UploadZip
SpecUpload == Init /\ [][NextUpload]_vars

\* /clone requests alone
NextClone == CloneReject \/ CloneReceive \/ CloneAttempt \/ CloneReturn
SpecClone == Init /\ [][NextClone]_vars

\* the classifier alone, on every working directory of WorkDirs
InitClassify ==
    /\ Acquired(WorkDirs)
    /\ PipelineIdle
    /\ templates = {DeploymentTemplate, ServiceTemplate}
    /\ normalized = NotNormalized
    /\ fsinfo = NoFsInfo
NextClassify == Classify
SpecClassify == InitClassify /\ [][NextClassify]_vars

\* working directories /instrument is asked to deploy
InstrumentDirs ==
    { [EmptyDir EXCEPT !.files = fs] :
        fs \in { {PackageJson}, {<<"app", ".", "py">>},
                 {<<"app", ".", "py">>, <<"Main", ".", "java">>},
                 {<<"README", ".", "md">>}, {<<"lib", ".", "jar">>} } }

\* the template directories the server may be deployed with
TemplateDirs ==
    { {DeploymentTemplate, ServiceTemplate}, {DeploymentTemplate}, {} }

\* /instrument requests alone
InitInstrument ==
    /\ Acquired(InstrumentDirs)
    /\ PipelineIdle
    /\ templates \in TemplateDirs
    /\ normalized = NotNormalized
    /\ fsinfo = NoFsInfo
NextInstrument == InstrumentReceive \/ InstrumentManifest \/ InstrumentReturn
SpecInstrument == InitInstrument /\ [][NextInstrument]_vars

\* build_user_image called on its own, next to /instrument requests
NextSynthesize ==
    BuildUserImage \/ InstrumentReceive \/ InstrumentManifest \/ InstrumentReturn
SpecSynthesize == InitInstrument /\ [][NextSynthesize]_vars

\* the branch validator alone, on every value of BranchValues
InitNormalize ==
    /\ Acquired({NoDir})
    /\ PipelineIdle
    /\ templates = {DeploymentTemplate, ServiceTemplate}
    /\ fsinfo = NoFsInfo
    /\ \E v \in BranchValues : normalized = [NotNormalized EXCEPT !.input = v]
NextNormalize == NormalizeBranch
SpecNormalize == InitNormalize /\ [][NextNormalize]_vars

\* the context extractor alone, on the working directories of ContextDirs
InitContext ==
    /\ Acquired(ContextDirs)
    /\ PipelineIdle
    /\ templates = {DeploymentTemplate, ServiceTemplate}
    /\ normalized = NotNormalized
    /\ fsinfo \in FsInfos(dirs[1].files)
NextContext == ExtractContext
SpecContext == InitContext /\ [][NextContext]_vars

\* /suggestions requests alone, on the same working directories
NextSuggest == Suggestions
SpecSuggest == InitContext /\ [][NextSuggest]_vars

\* applications onboarded side by side, each by its own requests
InitPipelines ==
    /\ dirs = [id \in AppIds |-> NoDir]
    /\ nextId = 0
    /\ resp = NoResp
    /\ log = {}
    /\ lastUpload = [payload |-> [wellformed |-> FALSE, names |-> <<>>],
                     io |-> "none", partial |-> 0]
    /\ pat_token = [set |-> FALSE, s |-> <<>>]
    /\ remote = [branches |-> {}]
    /\ clone = Idle
    /\ attempts = <<>>
    /\ PipelineIdle
    /\ templates = {DeploymentTemplate, ServiceTemplate}
    /\ normalized = NotNormalized
    /\ fsinfo = NoFsInfo
NextPipelines ==
    PipelineStart \/ PipelineAcquire \/ PipelineSynthesize \/ PipelineManifest
SpecPipelines == InitPipelines /\ [][NextPipelines]_vars

Next == UploadZip \/ CloneReject \/ CloneReceive \/ CloneAttempt \/ CloneReturn
Spec == Init /\ [][Next]_vars

(***************************************************************************)
(* Properties                                                              *)
(***************************************************************************)

\* the last /upload request has been answered
Uploaded == resp.op = "upload"

\* the last /clone request reached the handler and has been answered
Cloned == resp.op = "clone" /\ resp.app_id # 0 /\ clone.pc = "idle"

\* C1: an archive with an entry that starts with "/" or contains ".." is
\* answered with the 400 "Invalid file path in zip archive." error, nothing
\* is extracted and no working directory is left.
C1_InvalidEntryRejected ==
    ( /\ Uploaded
      /\ lastUpload.payload.wellformed
      /\ lastUpload.io = "none"
      /\ \E i \in 1..Len(lastUpload.payload.names) :
            \/ StartsWith(lastUpload.payload.names[i], <<"/">>)
            \/ Contains(<<".", ".">>, lastUpload.payload.names[i]) )
    => /\ resp.status = 400
       /\ resp.detail = DetailInvalidPath
       /\ dirs[resp.app_id] = NoDir

\* C2: the access token appears in no log line and in no response or error
\* detail of /clone.
C2_TokenNeverExposed ==
    (pat_token.set /\ pat_token.s # <<>>)
    => /\ \A l \in log : ~Contains(pat_token.s, l)
       /\ ~Contains(pat_token.s, resp.detail)

\* C3: unless the URL's scheme is https and its host is github.com, the URL
\* handed to every clone call is the request's repo_url.
C3_TokenOnlyForGithubHttps ==
    \A i \in 1..Len(attempts) :
        LET parsed == urlparse(clone.repo_url)
        IN  ~(parsed.scheme = <<"https">> /\ hostname(parsed) = GithubCom)
            => attempts[i].url = clone.repo_url

\* C4: at most two clone attempts are made, the first for the requested
\* branch, a second only for master after main; any other requested branch
\* has one candidate.
C4_RequestedBranchFirst ==
    /\ Len(attempts) <= 2
    /\ Len(attempts) >= 1 => attempts[1].branch = clone.branch
    /\ Len(attempts) = 2 => (clone.branch = Main /\ attempts[2].branch = Master)
    /\ (clone.pc # "idle" /\ clone.branch # Main) => Len(clone.branches_to_try) = 1

\* the error text carries the credential-prompt phrase, in any letter case
HasPromptPhrase(a) ==
    /\ a.out.kind = "git"
    /\ Contains(LowerStr(NeedlePrompt), LowerStr(LastGitErrorStderr(a.out)))

\* C5: a failed attempt whose error text carries the credential-prompt phrase
\* ends the branch loop and the request is answered with status 500, whatever
\* else the text contains.
C5_PromptIsAuthConfiguration ==
    \A i \in 1..Len(attempts) :
        HasPromptPhrase(attempts[i])
        => /\ i = Len(attempts)
           /\ clone.pc # "loop"
           /\ Cloned => resp.status = 500

\* the status the claim gives each error class
StatusOfClass(cls) ==
    CASE cls = "AuthConfigurationError" -> 500
      [] cls = "AuthError"              -> 403
      [] cls = "NotFoundError"          -> 404
      [] cls = "BranchNotFound"         -> 404
      [] OTHER                          -> 500

\* C6: a /clone that ends without a successful attempt is answered with the
\* status of the class of its last failed attempt.
C6_FailureStatusByClass ==
    ( /\ Cloned
      /\ Len(attempts) > 0
      /\ attempts[Len(attempts)].out.kind = "git" )
    => resp.status = StatusOfClass(attempts[Len(attempts)].cls)

FatalClasses == {"AuthConfigurationError", "AuthError", "NotFoundError", "CloneError"}

\* C7: the attempts go through the candidate list in order; an attempt is
\* followed by another one only if it was classified BranchNotFound, and a
\* loop that ended on a BranchNotFound attempt has tried every candidate.
C7_FatalStopsBranchNotFoundContinues ==
    /\ \A i \in 1..Len(attempts) : attempts[i].branch = clone.branches_to_try[i]
    /\ \A i \in 1..(Len(attempts) - 1) : attempts[i].cls = "BranchNotFound"
    /\ ( /\ clone.pc # "loop"
         /\ Len(attempts) > 0
         /\ attempts[Len(attempts)].cls = "BranchNotFound" )
       => Len(attempts) = Len(clone.branches_to_try)

\* a fatal first attempt ended the loop although a candidate was left
C7_Witness ==
    /\ Cloned
    /\ Len(clone.branches_to_try) = 2
    /\ Len(attempts) = 1
    /\ attempts[1].cls \in FatalClasses

\* every clone call met the remote as it is: it succeeded on a branch the
\* remote has and failed with git's missing-branch message on any other
FaithfulRemote ==
    \A i \in 1..Len(attempts) :
        IF attempts[i].branch \in remote.branches
        THEN attempts[i].out.kind = "ok"
        ELSE attempts[i].out.kind = "git" /\ attempts[i].out.stderr = StderrMissingBranch

\* C8: a request for main against a remote without main but with master
\* succeeds and reports master; a successful /clone reports the branch of the
\* attempt that succeeded, which is the one checked out in the directory.
C8_FallbackBranchReported ==
    /\ ( /\ Cloned
         /\ clone.branch = Main
         /\ Main \notin remote.branches
         /\ Master \in remote.branches
         /\ FaithfulRemote )
       => (resp.status = 200 /\ resp.cloned_branch = Master)
    /\ (Cloned /\ resp.status = 200)
       => /\ attempts[Len(attempts)].out.kind = "ok"
          /\ resp.cloned_branch = attempts[Len(attempts)].branch
          /\ dirs[resp.app_id].files = {Checkout(resp.cloned_branch)}

\* main was tried and missing, master was cloned
C8_Witness ==
    /\ Cloned
    /\ clone.branch = Main
    /\ remote.branches = {Master}
    /\ FaithfulRemote
    /\ Len(attempts) = 2
    /\ attempts[1].branch = Main
    /\ resp.status = 200
    /\ resp.cloned_branch = Master

\* C9: when /clone has returned, the working directory exists if and only if
\* the request succeeded.
C9_WorkdirIffSuccess ==
    Cloned => (dirs[resp.app_id].exists <=> resp.status = 200)

\* a request failed after two attempts and its directory is gone
C9_Witness ==
    /\ Cloned
    /\ resp.status # 200
    /\ Len(attempts) = 2
    /\ attempts[2].out.kind = "git"
    /\ ~dirs[resp.app_id].exists

\* C10: when /upload has returned, app.zip is gone, and after a failure the
\* working directory is gone.
C10_ZipRemovedFailureLeavesNothing ==
    Uploaded
    => /\ ~dirs[resp.app_id].zip
       /\ ZipName \notin dirs[resp.app_id].files
       /\ resp.status # 200 => dirs[resp.app_id] = NoDir

\* an extraction that failed after writing a member left nothing
C10_Witness ==
    /\ Uploaded
    /\ lastUpload.io = "extract"
    /\ lastUpload.partial >= 1
    /\ resp.status = 500
    /\ dirs[resp.app_id] = NoDir

\* the classifier has been run on the working directory of application 1
ClassifiedDir == IF classified.app_id = 0 THEN NoDir ELSE dirs[classified.app_id]

\* C11: detect_language never fails: on every working directory, also one
\* that holds .jar files, it returns one of nodejs, python, java, unknown.
C11_ClassifierTotal ==
    classified.app_id # 0 => classified.label \in Labels

\* what the claimed decision order gives for the directory d
ClaimedLabel(d) ==
    LET seen == Walked(d.files, excluded_dirs)
        pkg  == \E p \in seen : BaseName(p) = PackageJson
        py   == \E p \in seen : EndsWith(BaseName(p), <<".", "py">>)
        java == \E p \in seen : EndsWith(BaseName(p), <<".", "java">>)
    IN  CASE pkg -> "nodejs"
          [] ~pkg /\ py /\ ~java -> "python"
          [] ~pkg /\ java -> "java"
          [] OTHER -> "unknown"

Applies == SelectSeq(calls, LAMBDA e : e.op = "kubectl apply")

\* C13: both descriptors are rendered and written before any of them is
\* submitted to the cluster; when rendering fails, no cluster apply call has
\* been made in that /instrument request.
C13_RenderedBeforeApplied ==
    /\ \A j \in 1..Len(calls) :
          calls[j].op = "kubectl apply" =>
              \A t \in {DeploymentTemplate, ServiceTemplate} :
                  \E i \in 1..(j - 1) :
                      calls[i].op = "render" /\ calls[i].file = <<t>> /\ calls[i].ok
    /\ (\E i \in 1..Len(calls) : calls[i].op = "render" /\ ~calls[i].ok)
          => Applies = <<>>

\* the names the two descriptors of the request are written under
DeploymentFile == K8sAppName(inst.app_id) \o <<"-deployment.yaml">>
ServiceFile    == K8sAppName(inst.app_id) \o <<"-service.yaml">>

\* the response is one of the failures of the apply step
IsApplyFailure ==
    /\ resp.op = "instrument"
    /\ resp.status = 500
    /\ \/ StartsWith(resp.detail, <<"Failed to apply K8s manifest ">>)
       \/ StartsWith(resp.detail, <<"kubectl apply timed out for ">>)
       \/ resp.detail = <<"kubectl command not found on server.">>

\* C14: the descriptors are applied one after the other, deployment first,
\* service second; the first failing apply is the last thing the request
\* does and makes it fail; the service is attempted only after the
\* deployment succeeded; the list of applied names holds exactly the
\* descriptors whose apply succeeded.
C14_SequentialApply ==
    /\ Len(Applies) <= 2
    /\ Len(Applies) >= 1 => Applies[1].file = DeploymentFile
    /\ Len(Applies) = 2 => (Applies[1].ok /\ Applies[2].file = ServiceFile)
    /\ \A j \in 1..Len(calls) :
          (calls[j].op = "kubectl apply" /\ ~calls[j].ok)
              => (j = Len(calls) /\ inst.pc = "idle" /\ IsApplyFailure)
    /\ inst.manifests_applied =
          LET done == SelectSeq(Applies, LAMBDA e : e.ok)
          IN  [k \in 1..Len(done) |-> done[k].file]

\* the deployment was applied, the service failed to apply
C14_Witness ==
    /\ Len(Applies) = 2
    /\ ~Applies[2].ok
    /\ inst.manifests_applied = <<DeploymentFile>>
    /\ IsApplyFailure

\* C15: every error text of an external tool that is surfaced to the caller
\* is cut to at most 500 characters: a tool text longer than that never
\* shows whole in the detail of a response.
C15_ToolTextTruncated ==
    (Cloned /\ resp.status # 200) =>
        \A k \in 1..Len(attempts) :
            attempts[k].out.kind = "git" =>
                LET text == attempts[k].out.stderr
                IN  CharLen(text) > BuildStderrLimit => ~Contains(text, resp.detail)

\* the step is a call of build_user_image with a label it has no template for
UntemplatedBuildStep ==
    /\ resp'.op = "build_user_image"
    /\ resp'.language \notin Templated

\* the step is the start of an /instrument request on a working directory
\* the classifier labels unknown
UnknownInstrumentStep ==
    /\ inst.pc = "idle"
    /\ resp'.op = "instrument"
    /\ dirs[resp'.app_id].exists
    /\ detect_language(dirs[resp'.app_id]) = "unknown"

\* C16: build_user_image called with the label unknown, or any label without
\* a template, fails with the unsupported-language error, writes no
\* Dockerfile and runs no build; /instrument on a directory labelled unknown
\* fails before anything is built, rendered or applied.
C16_UnknownNeverBuilt ==
    [][ /\ UntemplatedBuildStep =>
            /\ resp'.exc = "HTTPException"
            /\ resp'.detail = <<"Dockerfile generation failed for language ",
                                resp'.language>>
            /\ calls' = <<>>
            /\ UNCHANGED <<dirs, dockerfile, images>>
        /\ UnknownInstrumentStep =>
            /\ resp'.status = 400
            /\ inst'.pc = "idle"
            /\ calls' = <<>>
            /\ UNCHANGED <<dirs, dockerfile, images, k8s, cluster>> ]_vars

\* build_user_image was called with the label unknown and left no Dockerfile
C16_Witness ==
    /\ resp.op = "build_user_image"
    /\ resp.language = "unknown"
    /\ resp.exc = "HTTPException"
    /\ DockerfileName \notin dirs[resp.app_id].files

\* C20: a failed /instrument request removes nothing (Dockerfile, written
\* manifests, built images and applied resources stay); a later request on
\* the same working directory writes the same Dockerfile and the same two
\* manifest files with the same content and applies them under the same
\* names; a request that succeeds leaves both resources applied under the
\* k8s name of the application.
C20_NoRollbackIdempotentRetry ==
    [][ /\ \A id \in AppIds :
             dockerfile[id] # NoDockerfile => dockerfile'[id] = dockerfile[id]
        /\ \A id \in AppIds :
             DockerfileName \in dirs[id].files => DockerfileName \in dirs'[id].files
        /\ images \subseteq images'
        /\ \A f \in DOMAIN k8s : f \in DOMAIN k8s' /\ k8s'[f] = k8s[f]
        /\ \A r \in DOMAIN cluster : r \in DOMAIN cluster' /\ cluster'[r] = cluster[r]
        /\ (resp'.op = "instrument" /\ resp'.status = 200) =>
             LET name == K8sAppName(resp'.app_id)
             IN  /\ <<"deployment", name>> \in DOMAIN cluster'
                 /\ <<"service", name>> \in DOMAIN cluster'
                 /\ resp'.k8s_app_name = name ]_vars

\* a request failed after the deployment was applied, and the retry succeeded
C20_Witness ==
    /\ resp.op = "instrument"
    /\ resp.status = 200
    /\ inst.before.status = 500
    /\ inst.before.manifests_applied = <<DeploymentFile>>

\* C19 as stated: the input master gives main; None or a whitespace-only
\* input gives main; any other non-empty input gives the input trimmed and
\* otherwise unchanged; the result is never empty.
C19_BranchNormalizationAsStated ==
    normalized.done =>
        LET v   == normalized.input
            out == normalized.output
        IN  /\ (v.none \/ Strip(v.s) = <<>>) => out = Main
            /\ (~v.none /\ v.s = Master) => out = Main
            /\ (~v.none /\ v.s # Master /\ Strip(v.s) # <<>>) => out = Strip(v.s)
            /\ out # <<>>

\* C19 amended: an input whose trimmed value is master gives main; None or
\* a whitespace-only input gives main; any other input gives the input
\* trimmed and otherwise unchanged; the result is never empty.
C19_BranchNormalization ==
    normalized.done =>
        LET v   == normalized.input
            out == normalized.output
        IN  /\ (v.none \/ Strip(v.s) = <<>>) => out = Main
            /\ (~v.none /\ Strip(v.s) = Master) => out = Main
            /\ (~v.none /\ Strip(v.s) # Master /\ Strip(v.s) # <<>>) => out = Strip(v.s)
            /\ out # <<>>

\* master with blanks around it was normalized to main
C19_Witness ==
    /\ normalized.done
    /\ normalized.input = [none |-> FALSE, s |-> <<" ", "master", " ">>]
    /\ normalized.output = Main

\* the file parts of the text the extractor returned
FileParts == SelectSeq(ctx.returned, LAMBDA part : part.kind = "file")

\* C17: whenever the extractor gathered no file content, an existing but
\* empty working directory included, it returns the sentinel, not a text
\* made of the tree alone.
C17_SentinelWithoutContent ==
    (ctx.app_id # 0 /\ ctx.files_read_count = 0) => ctx.returned = Sentinel

\* number of characters of the returned parts: tree, headers and contents
RECURSIVE PartsLen(_)
PartsLen(parts) ==
    IF parts = << >> THEN 0
    ELSE CharLen(Head(parts).text) + Head(parts).content_len + PartsLen(Tail(parts))

\* C18: the returned text holds the content of at most 7 files; the tracked
\* character total is the length of the tree, the headers and the contents
\* appended and is at most 12,000; no file is read once 7 files were taken
\* or the total reached 12,000.
C18_ContextWithinBudget ==
    ctx.app_id # 0 =>
        /\ Len(FileParts) <= MAX_CONTEXT_FILES_AI
        /\ Len(FileParts) = ctx.files_read_count
        /\ ctx.current_chars_count <= MAX_TOTAL_CONTENT_AI_CHARS
        /\ ctx.returned # Sentinel => PartsLen(ctx.returned) = ctx.current_chars_count
        /\ \A k \in 1..Len(ctx.opened) :
              /\ ctx.opened[k].files_read_count < MAX_CONTEXT_FILES_AI
              /\ ctx.opened[k].current_chars_count < MAX_TOTAL_CONTENT_AI_CHARS

\* seven files were taken and the directory holds more files of the kind
C18_Witness ==
    /\ ctx.app_id # 0
    /\ ctx.files_read_count = MAX_CONTEXT_FILES_AI
    /\ Len(FileParts) = MAX_CONTEXT_FILES_AI
    /\ Cardinality({ p \in dirs[ctx.app_id].files :
                        /\ fsinfo.stat[p].readable
                        /\ fsinfo.stat[p].size = DefaultStat.size
                        /\ Len(DirParts(p)) = 0 }) > MAX_CONTEXT_FILES_AI

\* the text user-app-<lowercased app_id> of the request served last
UserApp == <<"user-app-">> \o LowerStr(AppIdStr(inst.app_id))

\* files the request wrote outside the working directory, in order
ManifestWrites ==
    LET w == SelectSeq(calls, LAMBDA e : e.op = "write" /\ e.file # DockerfileName)
    IN  [k \in 1..Len(w) |-> w[k].file]

\* the request is over; the build tool was run and it and every cluster
\* CLI invocation of the request exited 0, both templates are there and
\* every file write worked
ToolsSucceeded ==
    /\ inst.pc = "idle" /\ inst.app_id # 0
    /\ inst.lang \in Templated
    /\ templates = {DeploymentTemplate, ServiceTemplate}
    /\ \E j \in 1..Len(calls) : calls[j].op = "docker build"
    /\ \A j \in 1..Len(calls) : calls[j].ok

\* C21: for a working directory with a supported label, both templates
\* present and a build tool and cluster CLI that exit 0, /instrument
\* succeeds with image user-app-<lowercased app_id>:latest, writes exactly
\* the files user-app-<id>-deployment.yaml and user-app-<id>-service.yaml
\* and returns exactly these two names, the deployment first.
C21_InstrumentSucceeds ==
    ToolsSucceeded =>
        /\ resp.op = "instrument" /\ resp.status = 200
        /\ resp.image_built = UserApp \o <<":latest">>
        /\ resp.image_built \in images
        /\ ManifestWrites = << UserApp \o <<"-deployment.yaml">>,
                               UserApp \o <<"-service.yaml">> >>
        /\ \A k \in 1..2 : ManifestWrites[k] \in DOMAIN k8s
        /\ resp.manifests_applied = ManifestWrites

C21_Witness ==
    /\ ToolsSucceeded
    /\ resp.status = 200
    /\ detect_language(dirs[inst.app_id]) = "nodejs"
    /\ Len(resp.manifests_applied) = 2

\* the step renders and writes the descriptor the loop is at
RenderStep ==
    /\ inst.pc = "loop"
    /\ \E j \in 1..Len(calls') :
          /\ j > Len(calls)
          /\ calls'[j].op = "write" /\ calls'[j].ok

\* C22: rendering with the same app_id, image, label, port and templates
\* writes the same output path with the same content every time: a second
\* render changes nothing in the manifest output directory, it neither
\* appends to the file nor adds a file beside it.
C22_RenderIdempotent ==
    [][ RenderStep =>
          LET id  == inst.app_id
              m   == ManifestPlan(K8sAppName(id))[inst.i]
              out == UserApp \o (IF m.kind = "deployment" THEN <<"-deployment.yaml">>
                                    ELSE <<"-service.yaml">>)
          IN  /\ out \in DOMAIN k8s'
              /\ k8s'[out].template = m.template
              /\ k8s'[out].context.image = UserApp \o <<":latest">>
              /\ k8s'[out].context.port = PORT_MAP(detect_language(dirs[id]))
              /\ DOMAIN k8s' = DOMAIN k8s \cup {out}
              /\ out \in DOMAIN k8s => k8s' = k8s ]_vars

\* both descriptors were rendered by an earlier request and again by this one
C22_Witness ==
    /\ inst.app_id # 0
    /\ inst.before.manifests_applied = <<DeploymentFile, ServiceFile>>
    /\ ManifestWrites = <<DeploymentFile, ServiceFile>>

BuildFailedPrefix == <<"Docker image build failed: ">>

\* C23: a container build that exits non-zero fails the request with the
\* build error, whose detail carries at most 500 characters of the captured
\* error output; a missing build tool fails it with the tool-not-found
\* error, which is told apart from the build error; after either, the
\* request renders nothing and applies nothing.
C23_BuildFailureStopsPipeline ==
    \A j \in 1..Len(calls) :
        (calls[j].op = "docker build" /\ ~calls[j].ok) =>
            /\ j = Len(calls)
            /\ resp.status = 500
            /\ resp.op = "instrument" => inst.pc = "idle"
            /\ calls[j].outcome = "failed" =>
                  /\ StartsWith(resp.detail, BuildFailedPrefix)
                  /\ CharLen(resp.detail)
                        <= CharLen(BuildFailedPrefix) + 500 + CharLen(<<"...">>)
            /\ calls[j].outcome = "notfound" =>
                  /\ resp.detail = <<"Docker command not found on server.">>
                  /\ ~StartsWith(resp.detail, BuildFailedPrefix)

\* the build tool exited non-zero with more than 500 characters of error
\* output, of which the response shows 500
C23_Witness ==
    /\ resp.op = "instrument"
    /\ calls # <<>>
    /\ calls[Len(calls)].op = "docker build"
    /\ calls[Len(calls)].outcome = "failed"
    /\ CharLen(resp.detail) = CharLen(BuildFailedPrefix) + 500 + CharLen(<<"...">>)

\* the file lies under a directory the classifier excludes, at any depth
UnderExcluded(p) == \E i \in 1..Len(DirParts(p)) : DirParts(p)[i] \in excluded_dirs

\* the classified directory without the files under excluded directories
Unexcluded ==
    [ClassifiedDir EXCEPT !.files = { p \in @ : ~UnderExcluded(p) }]

\* C24: no file under an excluded directory, at any depth below the root,
\* contributes to the label: the label is the one of the directory without
\* these files, and a package.json found only under excluded directories
\* does not give nodejs.
C24_ExcludedSubtreesIgnored ==
    classified.app_id # 0 =>
        /\ classified.label = detect_language(Unexcluded)
        /\ (~\E p \in Unexcluded.files : BaseName(p) = PackageJson)
              => classified.label # "nodejs"

\* a package.json lies under node_modules below src only, next to a source
\* file, and the label is the one of the source file
C24_Witness ==
    /\ classified.app_id # 0
    /\ <<"src", "/", "node_modules", "/", "package", ".", "json">> \in ClassifiedDir.files
    /\ PackageJson \notin ClassifiedDir.files
    /\ classified.label = "python"

\* C25: /instrument changes a working directory only by creating or
\* rewriting its Dockerfile: it removes no file, adds no other file, removes
\* no directory, and the classifier gives the directory the same label
\* after the request as before it.
C25_OnlyDockerfileMutated ==
    [][ \A id \in AppIds :
          /\ dirs'[id].exists = dirs[id].exists
          /\ dirs[id].files \subseteq dirs'[id].files
          /\ dirs'[id].files \subseteq dirs[id].files \cup {DockerfileName}
          /\ detect_language(dirs'[id]) = detect_language(dirs[id]) ]_vars

\* a request went through on a directory that now holds the Dockerfile next
\* to its package.json, and the label is still the one the request found
C25_Witness ==
    /\ inst.app_id # 0
    /\ resp.op = "instrument" /\ resp.status = 200
    /\ dirs[inst.app_id].files = {PackageJson, DockerfileName}
    /\ dockerfile[inst.app_id] = dockerfile_content("nodejs")
    /\ detect_language(dirs[inst.app_id]) = inst.lang

\* the key files of the label that lie in the root of the extracted
\* directory and can be read and are of a size the extractor takes
ReadableKeyFiles ==
    SelectSeq(candidate_files_ordered(ctx.language),
              LAMBDA n : /\ n \in dirs[ctx.app_id].files
                         /\ fsinfo.stat[n].readable
                         /\ 0 < fsinfo.stat[n].size
                         /\ fsinfo.stat[n].size <= MAX_FILE_SIZE_AI_BYTES)

\* C26: the extractor does not fail: whatever files of the directory cannot
\* be opened or sized, it returns a text, a context or the sentinel; a file
\* that fails is left out and the files after it are still read.
C26_ExtractorNeverFails ==
    ctx.app_id # 0 =>
        /\ ctx.returned # << >>
        /\ \/ ctx.returned = Sentinel
           \/ \A k \in 1..Len(ctx.returned) : ctx.returned[k].kind \in {"tree", "file"}
        /\ \A k \in 1..Len(FileParts) : fsinfo.stat[FileParts[k].file].readable
        /\ ReadableKeyFiles # << >> =>
              (FileParts # << >> /\ FileParts[1].file = ReadableKeyFiles[1])

\* README.md cannot be read and the context starts with the next key file
C26_Witness ==
    /\ ctx.app_id # 0
    /\ ReadmeMd \in dirs[ctx.app_id].files
    /\ ~fsinfo.stat[ReadmeMd].readable
    /\ FileParts # << >>
    /\ FileParts[1].file = <<"requirements", ".", "txt">>

\* C27: for each of the labels nodejs, python and java of the classifier,
\* the extractor called with that label considers README.md first, then
\* manifest files and entry-point files of the language, and has source
\* extensions for the fallback walk; for nodejs, package.json and the
\* JavaScript entry points are among the candidates.
C27_LabelsKnownToExtractor ==
    (ctx.app_id # 0 /\ ctx.language \in {"nodejs", "python", "java"}) =>
        LET cands == candidate_files_ordered(ctx.language)
        IN  /\ cands[1] = ReadmeMd
            /\ Len(cands) > 1
            /\ source_extensions(ctx.language) # {}
            /\ ctx.language = "nodejs" =>
                  /\ \E k \in 2..Len(cands) : cands[k] = PackageJson
                  /\ \E k \in 2..Len(cands) : cands[k] = <<"server", ".", "js">>

\* a prompt was handed to the text-generation collaborator
PromptHanded == resp.op = "suggestions" /\ resp.prompt # << >>

\* C28: the prompt /suggestions hands to the collaborator holds the text the
\* extractor returned for the application: the tree and the header of each
\* file that was read are in it.
C28_PromptHoldsContext ==
    PromptHanded =>
        /\ ctx.app_id = resp.app_id
        /\ \A k \in 1..Len(ctx.returned) : Contains(ctx.returned[k].text, resp.prompt)

\* the tree sketch of the returned context, empty when there is none
TreeText ==
    IF ctx.returned # << >> /\ ctx.returned[1].kind = "tree"
    THEN ctx.returned[1].text ELSE << >>

\* C29: the extractor skips in its three walks exactly the directory names
\* the classifier skips: the two lists hold the same names, the tree shows
\* no directory the classifier excludes, and no file under such a
\* directory is opened.
C29_SameExclusions ==
    ctx.app_id # 0 =>
        /\ \A name \in context_excluded_dirs \cup excluded_dirs :
              name \in context_excluded_dirs <=> name \in excluded_dirs
        /\ \A name \in excluded_dirs : ~Contains(name \o <<"/\n">>, TreeText)
        /\ \A k \in 1..Len(ctx.opened) : ~UnderExcluded(ctx.opened[k].file)

\* the files the fallback walk opened, in order
FallbackOpened ==
    LET o == SubSeq(ctx.opened, ctx.key_opened + 1, Len(ctx.opened))
    IN  [k \in 1..Len(o) |-> o[k].file]

\* the files whose content is in the returned context, in order
TakenFiles == [k \in 1..Len(FileParts) |-> FileParts[k].file]

\* n1 comes before n2 in the order (name length, name)
ShorterFirst(n1, n2) ==
    \/ CharLen(n1) < CharLen(n2)
    \/ CharLen(n1) = CharLen(n2) /\ Rank(n1, Alphabetical) < Rank(n2, Alphabetical)

\* the fallback walk opens only source files of the label at depth <= 2,
\* those of one directory in the order (name length, name)
FallbackFilesInOrder ==
    /\ \A k \in 1..Len(FallbackOpened) :
          /\ \E ext \in source_extensions(ctx.language) :
                EndsWith(FallbackOpened[k], ext)
          /\ Len(DirParts(FallbackOpened[k])) <= 2
    /\ \A j, k \in 1..Len(FallbackOpened) :
          (j < k /\ DirParts(FallbackOpened[j]) = DirParts(FallbackOpened[k]))
              => ShorterFirst(BaseName(FallbackOpened[j]), BaseName(FallbackOpened[k]))

\* C30 as stated: the fallback walk reads only source files of the label at
\* depth <= 2, in the order (name length, name) within a directory, and a
\* file read in the key-file phase is never read again, so that no content
\* appears twice.
C30_FallbackWalkAsStated ==
    ctx.app_id # 0 =>
        /\ FallbackFilesInOrder
        /\ \A j \in 1..ctx.key_opened, k \in 1..Len(FallbackOpened) :
              ctx.opened[j].file # FallbackOpened[k]
        /\ \A j, k \in 1..Len(TakenFiles) : j # k => TakenFiles[j] # TakenFiles[k]

\* C30: the fallback walk reads only source files of the label at depth
\* <= 2, in the order (name length, name) within a directory; a file whose
\* content was taken is never opened again, so no content appears twice; a
\* key file that was opened and did not fit may be opened once more.
C30_FallbackWalk ==
    ctx.app_id # 0 =>
        /\ FallbackFilesInOrder
        /\ \A j, k \in 1..Len(ctx.opened) :
              (j < k /\ ctx.opened[j].file = ctx.opened[k].file)
                  => \A t \in 1..Len(TakenFiles) : TakenFiles[t] # ctx.opened[j].file
        /\ \A j, k \in 1..Len(TakenFiles) : j # k => TakenFiles[j] # TakenFiles[k]

\* the key-file phase took main.py; the fallback walk took the two other
\* files of the root, the shorter name first, and went on to a directory at
\* depth 2, leaving out the file at depth 3
C30_Witness ==
    /\ ctx.app_id # 0
    /\ ctx.key_opened = 1
    /\ Len(TakenFiles) = 5
    /\ TakenFiles[1] = <<"main", ".", "py">>
    /\ TakenFiles[2] = <<"util", ".", "py">>
    /\ TakenFiles[3] = <<"test_app", ".", "py">>
    /\ \E k \in 4..5 : TakenFiles[k] = <<"a", "/", "b", "/", "lib", ".", "py">>
    /\ <<"a", "/", "b", "/", "c", "/", "deep", ".", "py">> \in dirs[ctx.app_id].files

\* C31: when the requested branch is on the remote and its clone succeeds,
\* /clone reports the requested branch; another branch is attempted only
\* after the attempt for the requested branch has failed with BranchNotFound.
C31_RequestedBranchWins ==
    /\ ( /\ Cloned
         /\ resp.status = 200
         /\ clone.branch \in remote.branches
         /\ FaithfulRemote )
       => resp.cloned_branch = clone.branch
    /\ \A k \in 1..Len(attempts) :
          attempts[k].branch # clone.branch
              => \E j \in 1..(k - 1) :
                    /\ attempts[j].branch = clone.branch
                    /\ attempts[j].cls = "BranchNotFound"

\* the entry path is relative and none of its segments is ".."
RelativeNoTraversal(member) ==
    /\ ~StartsWith(member, <<"/">>)
    /\ \A i \in 1..Len(SplitPath(member)) : SplitPath(member)[i] # <<".", ".">>

\* C32: a well-formed archive whose entry paths are all relative and have no
\* segment equal to "..", a name such as notes..txt included, is extracted
\* and answered with success, and its working directory is present.
C32_OnlyTraversalRejected ==
    ( /\ Uploaded
      /\ lastUpload.payload.wellformed
      /\ lastUpload.io = "none"
      /\ \A i \in 1..Len(lastUpload.payload.names) :
            RelativeNoTraversal(lastUpload.payload.names[i]) )
    => /\ resp.status = 200
       /\ dirs[resp.app_id].exists
       /\ \A i \in 1..Len(lastUpload.payload.names) :
             lastUpload.payload.names[i] # ZipName
                 => lastUpload.payload.names[i] \in dirs[resp.app_id].files

\* an /instrument request for an application without a working directory
\* is answered in this step
InstrumentMissingStep ==
    /\ inst.pc = "idle"
    /\ resp'.op = "instrument"
    /\ inst'.app_id # 0
    /\ ~dirs[inst'.app_id].exists

\* C33: /instrument for an app_id without a working directory fails with
\* 404 before any stage runs: no recipe and no manifest is written, no build
\* tool and no cluster CLI is called, the directories, the images and the
\* cluster stay as they were.
C33_MissingAppNotFound ==
    [][ InstrumentMissingStep
          => /\ resp'.status = 404
             /\ resp'.detail = <<"App not found. Please upload or clone first.">>
             /\ calls' = << >>
             /\ inst'.pc = "idle"
             /\ inst'.manifests_applied = << >>
             /\ UNCHANGED <<dirs, dockerfile, images, k8s, cluster>> ]_vars

\* an application was deployed, then /instrument was asked for an app_id
\* without a working directory and answered 404: what the first request
\* built and applied is still there
C33_Witness ==
    /\ resp.op = "instrument"
    /\ resp.status = 404
    /\ ~dirs[resp.app_id].exists
    /\ inst.before.status = 200
    /\ calls = << >>
    /\ images # {}
    /\ DOMAIN k8s # {}
    /\ DOMAIN cluster # {}

\* the applications whose onboarding has begun
Onboarded == { id \in AppIds : pipes[id].pc # "none" }

\* no path, image name or resource name was written or produced for two
\* applications, and no path written for one application lies in the working
\* directory of another
DisjointArtifacts ==
    \A w1, w2 \in writes :
        w1.app_id # w2.app_id
            => /\ ~(w1.kind = w2.kind /\ w1.name = w2.name)
               /\ w1.kind = "path" => ~StartsWith(w1.name, app_dir(w2.app_id))

\* what the pipeline of application id has left is what it wrote: its
\* working directory, its recipe, its image, its manifests and its resources
ArtifactsIntact(id) ==
    LET plan == ManifestPlan(K8sAppName(id))
        text(k) == Render(plan[k].template, TemplateContext(id, pipes[id].lang))
        applied == IF pipes[id].pc = "done" THEN Len(plan) ELSE pipes[id].i - 1
    IN  /\ pipes[id].pc \in {"acquired", "manifests", "done"} => dirs[id].exists
        /\ pipes[id].pc \in {"manifests", "done"} =>
              /\ DockerfileName \in dirs[id].files
              /\ dockerfile[id] = dockerfile_content(pipes[id].lang)
              /\ ImageName(id) \in images
        /\ \A k \in 1..pipes[id].written :
              /\ plan[k].output \in DOMAIN k8s
              /\ k8s[plan[k].output] = text(k)
        /\ \A k \in 1..applied :
              /\ <<plan[k].kind, K8sAppName(id)>> \in DOMAIN cluster
              /\ cluster[<<plan[k].kind, K8sAppName(id)>>] = text(k)

\* C34: however the pipelines of applications with distinct generated
\* app_ids interleave, the paths they write (working directory, build
\* recipe, the two manifest files) and the image and resource names they
\* produce are disjoint, and no pipeline overwrites an artifact of another.
C34_PipelinesIsolated ==
    /\ DisjointArtifacts
    /\ \A id \in Onboarded : ArtifactsIntact(id)

\* two applications are in the manifest loop at the same time, each with
\* its deployment written and applied and its service still to come
C34_Witness ==
    \E a, b \in Onboarded :
        /\ a # b
        /\ pipes[a].pc = "manifests" /\ pipes[a].i = 2
        /\ pipes[b].pc = "manifests" /\ pipes[b].i = 2
        /\ \E w \in writes : w.app_id = a /\ w.kind = "deployment"
        /\ \E w \in writes : w.app_id = b /\ w.kind = "deployment"
        /\ \E w \in writes : w.app_id = a /\ w.kind = "image"
        /\ \E w \in writes : w.app_id = b /\ w.kind = "image"

====
